---- MODULE Spec2Model ----
(***************************************************************************)
(* A model of the PocketArk client's local services: the QoS echo server,  *)
(* the redirector, the HTTP proxy, the Blaze tunnel, the shared connection *)
(* context (TARGET / TOKEN) and the start/stop of the servers.             *)
(*                                                                         *)
(* Each service has its own specification (SpecQos, SpecRelay, SpecSup,    *)
(* SpecCtx, SpecHttp): the actions of one service leave the variables of   *)
(* the others unchanged.                                                   *)
(***************************************************************************)
EXTENDS Integers, Sequences, FiniteSets, TLC

VARIABLES
    \* ---- servers/qos.rs
    qosPc,        \* position of the QoS loop: "recv", "addr", "send"
    buffer,       \* let mut buffer = [0u8; 64]
    output,       \* let mut output = [0u8; 128]
    count,        \* bytes received by the last recv_from
    srcAddr,      \* source address of the last datagram
    address,      \* address chosen for the datagram being answered
    cache,        \* PUBLIC_ADDR_CACHE
    now,          \* SystemTime::now(), seconds
    ticks,        \* number of clock steps taken (bounded)
    lastIn,       \* the last datagram received: payload and source
    lastSent,     \* the last datagram handed to send_to: data and destination
    extCalls,     \* requests the last public_address() made to the IP services
    lastLookup,   \* the last public_address(): what it found, the cache before it
    qFails,       \* the kinds of failure the QoS loop has met: "recv", "send"
    \* ---- servers/qos.rs, public_address() with several callers
    aPc,          \* position of each caller: "idle", "wait", "req", "hung", "done"
    aHolder,      \* who holds PUBLIC_ADDR_CACHE for writing, or "free"
    aIdx,         \* the service each caller is waiting for (1, 2), or 0
    aExt,         \* requests each call has made to the IP services
    aHit,         \* whether each call was answered on the fast path
    aRet,         \* what each call returned
    aSeen,        \* the entry and its freshness when each call examined the cache
    aAtLock,      \* whether the entry was fresh when each call got the write lock
    aLog,         \* per caller: the services asked and what each gave, and
                  \* "local" when local_ip() was consulted, in order
    \* ---- shared connection context (main.rs TARGET, crate TOKEN)
    TARGET,       \* RwLock<Option<LookupData>>: the value
    TOKEN,        \* RwLock<Option<String>>: the value
    targetLock,   \* TARGET's lock: "free", or "writer" while held for writing
    wPc,          \* position of the writer (lookup / login / disconnect)
    wVal,         \* the value the writer is storing
    written,      \* every LookupData stored in full so far
    \* ---- servers/http.rs and servers/redirector.rs
    reqPool,      \* the requests game clients may send
    hPc,          \* position of the HTTP proxy's request handler
    hReq,         \* the request being handled
    hTarget,      \* the handler's clone of TARGET
    hToken,       \* the handler's read of TOKEN
    hPairs,       \* (TARGET, TOKEN) pairs current since the handler read TARGET
    proxyReq,     \* the outbound request built by the handler
    hSends,       \* outbound requests sent for the request being handled
    proxyRes,     \* the upstream's response
    hResp,        \* the response returned to the game client
    rReq,         \* the request the redirector is handling
    rResp,        \* the redirector's response
    hConn,        \* the proxy's connection: "none", "open", "closed"
    hFail,        \* why the connection's task ended early, or "none"
    hFails,       \* the failures met by the proxy so far
    hListening,   \* the accept loop of the proxy's start_server is running
    \* ---- servers/main.rs (tunnel)
    tPc,          \* position of handle_client
    tTarget,      \* handle_client's clone of TARGET
    tToken,       \* handle_client's clone of TOKEN
    cOut,         \* bytes the game has written to its connection
    cWire,        \* bytes of the game not yet read by the relay
    c2sBuf,       \* relay buffer, game to server
    sIn,          \* bytes delivered to the server
    sOut,         \* bytes the server has written to the upgraded stream
    sWire,        \* bytes of the server not yet read by the relay
    s2cBuf,       \* relay buffer, server to game
    cIn,          \* bytes delivered to the game
    tSends,       \* upstream requests sent for the connection being handled
    tFail,        \* why handle_client returned before the relay, or "none"
    tFails,       \* the failures of the connections handled so far
    tListening,   \* the accept loop of the tunnel's start_server is running
    tReq,         \* the upgrade request handle_client has sent, if any
    cSide,        \* the game's end of its connection: "open", "closed", "reset"
    sSide,        \* the server's end of the upgraded stream, likewise
    c2sDone,      \* copy_bidirectional has finished the direction game to server
    s2cDone,      \* copy_bidirectional has finished the direction server to game
    \* ---- servers.rs (start / stop of the servers)
    tasks,        \* the recorded server tasks
    bound,        \* ports bound by this process: port -> task id
    extHeld,      \* ports held by other processes
    gen,          \* number of start_all_servers calls so far
    errors,       \* errors shown to the operator
    procExit,     \* the process has ended through exit(1)
    conns,        \* the per-connection tasks spawned by the accept loops
    lastOp,       \* the last call made to the servers module: "start", "stop"
    genArgs,      \* the target and token handed to the last start_all_servers
    \* ---- ui/iced.rs and ui/native.rs
    frontend,     \* the front-end in use: "iced" or "native"
    appState,     \* AppState: "Default" / "Connect", "Login", "Create", "Running"
    lookupResult, \* iced: LookupState "None", "Loading", "Success", "Error"
    lookups,      \* server lookups in flight
    auths,        \* login / create requests in flight
    nextState,    \* native: the next_state slot, "none" when empty
    lastEvent,    \* the last event handled by the front-end
    \* ---- the readers of the connection context
    hDirty,       \* TARGET or TOKEN was being written, or has been written,
                  \* since the proxy took the request it is handling
    tDirty,       \* the same since the tunnel accepted its connection
    \* ---- the accept loops of servers/main.rs, http.rs and redirector.rs
    lPos,         \* position of each accept loop: "accept", "spawn"
    cStage,       \* stage of each connection's task, "none" before it exists
    \* ---- host.rs
    hostsFile,    \* the contents of the hosts file
    hostsLog,     \* the calls that succeeded: operation, contents before and
                  \* after, and the lines the filter dropped
    \* ---- read guards of TARGET and TOKEN, and try_login (api.rs)
    guards,       \* per reader: the locks whose read guard it holds
    authPc        \* position of try_login

qosVars == <<qosPc, buffer, output, count, srcAddr, address, cache, now, ticks,
             lastIn, lastSent, extCalls, lastLookup, qFails>>
ctxVars == <<TARGET, TOKEN, targetLock, wPc, wVal, written>>
hConnVars == <<hConn, hFail, hFails, hListening>>
httpVars == <<reqPool, hPc, hReq, hTarget, hToken, hPairs, proxyReq, hSends,
              proxyRes, hResp, rReq, rResp, hConnVars>>
tunVars == <<tPc, tTarget, tToken, cOut, cWire, c2sBuf, sIn, sOut, sWire,
             s2cBuf, cIn, tSends, tFail, tFails, tListening, tReq,
             cSide, sSide, c2sDone, s2cDone>>
supVars == <<tasks, bound, extHeld, gen, errors, procExit, conns, lastOp,
             genArgs>>
addrVars == <<aPc, aHolder, aIdx, aExt, aHit, aRet, aSeen, aAtLock, aLog>>
uiVars == <<frontend, appState, lookupResult, lookups, auths, nextState,
            lastEvent>>
freshVars == <<hDirty, tDirty>>
connVars == <<lPos, cStage>>
hostVars == <<hostsFile, hostsLog>>
guardVars == <<guards, authPc>>
vars == <<qosVars, addrVars, ctxVars, httpVars, tunVars, supVars, uiVars,
          freshVars, connVars, hostVars, guardVars>>

httpRest == <<reqPool, hPc, hReq, hTarget, hToken, proxyReq, hSends, proxyRes,
              hResp, rReq, rResp, hConnVars>>
notQos == <<addrVars, ctxVars, httpVars, tunVars, supVars, uiVars, freshVars,
          connVars, hostVars, guardVars>>
notCtx == <<qosVars, addrVars, httpRest, tunVars, supVars, uiVars,
          connVars, hostVars, guardVars>>
notHttp == <<qosVars, addrVars, ctxVars, tunVars, supVars, uiVars, freshVars,
          connVars, hostVars, guardVars>>
notTun == <<qosVars, addrVars, ctxVars, httpVars, supVars, uiVars, freshVars,
          connVars, hostVars, guardVars>>
notHttpRecv == <<qosVars, addrVars, ctxVars, tunVars, supVars, uiVars, tDirty,
          connVars, hostVars, guardVars>>
notTunAccept == <<qosVars, addrVars, ctxVars, httpVars, supVars, uiVars,
                  hDirty,
          connVars, hostVars, guardVars>>
notHttpRead == <<qosVars, addrVars, ctxVars, tunVars, supVars, uiVars, freshVars,
                 connVars, hostVars, authPc>>
notTunRead == <<qosVars, addrVars, ctxVars, httpVars, supVars, uiVars, freshVars,
                connVars, hostVars, authPc>>
notSup == <<qosVars, addrVars, httpVars, tunVars, uiVars,
          connVars, hostVars, guardVars>>
notUi == <<qosVars, addrVars, httpVars, tunVars,
          connVars, hostVars, guardVars>>
notAddr == <<qosPc, buffer, output, count, srcAddr, address, ticks, lastIn,
             lastSent, extCalls, lastLookup, qFails, ctxVars, httpVars,
             tunVars, supVars, uiVars, freshVars,
          connVars, hostVars, guardVars>>

\* Option<T>: None, Some(v)
None == [some |-> FALSE]

Some(v) == [some |-> TRUE, v |-> v]

\* No IPv4 address (an address is a sequence of 4 bytes)
NoAddr == <<>>

(***************************************************************************)
(* constants.rs                                                            *)
(***************************************************************************)
REDIRECTOR_PORT == 42230
MAIN_PORT == 42231
QOS_PORT == 42232

(***************************************************************************)
(* Helpers on byte sequences                                               *)
(***************************************************************************)
Zeros(n) == [i \in 1..n |-> 0]

\* buffer[..n]
Take(s, n) == SubSeq(s, 1, n)

\* s[n..]
Drop(s, n) == SubSeq(s, n + 1, Len(s))

\* out[start..end].copy_from_slice(bytes), start and end 0-based as in Rust
CopyFromSlice(out, start, end, bytes) ==
    [i \in 1..Len(out) |->
        IF start < i /\ i <= end THEN bytes[i - start] ELSE out[i]]

IsPrefix(p, s) == Len(p) <= Len(s) /\ Take(s, Len(p)) = p

\* u16::to_be_bytes
ToBeBytes16(p) == <<(p \div 256) % 256, p % 256>>

\* u32::from_be_bytes
FromBeBytes32(b) == ((b[1] * 256 + b[2]) * 256 + b[3]) * 256 + b[4]

(***************************************************************************)
(* servers/qos.rs                                                          *)
(***************************************************************************)
BufferLen == 64
OutputLen == 128

\* const ADDR_CACHE_TIME: Duration = Duration::from_secs(60 * 30)
ADDR_CACHE_TIME == 60 * 30

\* Bounds of the QoS model
MaxTicks == 2

LOCALHOST == <<127, 0, 0, 1>>
PublicIp == <<203, 0, 113, 7>>
LocalIp == <<192, 168, 1, 5>>

\* The datagrams the game may send: empty, short, a full buffer, and the
\* same with one byte more than the receive buffer holds.
Payloads == {<<>>, <<7>>, [i \in 1..BufferLen |-> 255],
             [i \in 1..(BufferLen + 1) |-> IF i <= BufferLen THEN 255 ELSE 170]}

Sources == {[v4 |-> TRUE, ip |-> <<1, 2, 3, 4>>, port |-> 5000],
            [v4 |-> TRUE, ip |-> <<10, 0, 0, 2>>, port |-> 80]}

\* What one external IP service may answer: no connection, text that is no
\* IPv4 address, or the public address.
EndpointOutcomes == {"fail", "garbage", "ok"}

Unset == [set |-> FALSE]

CacheSet(value, expires) == [set |-> TRUE, value |-> value, expires |-> expires]

\* A hit that does not look at the expiry
CacheFreshAlways(c, t) == c.set

CacheFresh(c, t) == c.set /\ t < c.expires

InitQos ==
    /\ qosPc = "recv"
    /\ buffer = Zeros(BufferLen)
    /\ output = Zeros(OutputLen)
    /\ count = 0
    /\ srcAddr = [v4 |-> TRUE, ip |-> <<0, 0, 0, 0>>, port |-> 0]
    /\ address = NoAddr
    /\ cache = Unset
    /\ now = 0
    /\ ticks = 0
    /\ lastIn = None
    /\ lastSent = None
    /\ extCalls = 0
    /\ lastLookup = None
    /\ qFails = {}

\* socket.recv_from(&mut buffer): Ok((count, addr)).  A datagram longer than
\* the buffer is cut to the buffer's length.
QosRecv(p, src) ==
    /\ qosPc = "recv"
    /\ Len(p) <= BufferLen
    /\ buffer' = [i \in 1..BufferLen |-> IF i <= Len(p) THEN p[i] ELSE buffer[i]]
    /\ count' = Len(p)
    /\ srcAddr' = src
    /\ lastIn' = Some([payload |-> p, src |-> src])
    /\ qosPc' = "addr"
    /\ UNCHANGED <<output, address, cache, now, ticks, lastSent, extCalls,
                   lastLookup, qFails>>
    /\ UNCHANGED notQos

\* A recv_from that reports the datagram's own length for a cut datagram
QosRecvOversizeFullCount(p, src) ==
    /\ qosPc = "recv"
    /\ Len(p) > BufferLen
    /\ buffer' = Take(p, BufferLen)
    /\ count' = Len(p)
    /\ srcAddr' = src
    /\ lastIn' = Some([payload |-> Take(p, BufferLen), src |-> src])
    /\ qosPc' = "addr"
    /\ UNCHANGED <<output, address, cache, now, ticks, lastSent, extCalls,
                   lastLookup, qFails>>
    /\ UNCHANGED notQos

\* recv_from on a datagram that does not fit the buffer: the platform either
\* reports an error (the loop continues) or cuts the datagram.
QosRecvOversize(p, src) ==
    /\ qosPc = "recv"
    /\ Len(p) > BufferLen
    /\ \/ /\ qFails' = qFails \cup {"recv"}
          /\ UNCHANGED <<buffer, count, srcAddr, lastIn, qosPc>>
       \/ /\ buffer' = Take(p, BufferLen)
          /\ count' = BufferLen
          /\ srcAddr' = src
          /\ lastIn' = Some([payload |-> Take(p, BufferLen), src |-> src])
          /\ qosPc' = "addr"
          /\ UNCHANGED qFails
    /\ UNCHANGED <<output, address, cache, now, ticks, lastSent, extCalls,
                   lastLookup>>
    /\ UNCHANGED notQos

\* public_address(), fast path: the cached value while it has not expired
PublicAddressCached ==
    /\ qosPc = "addr"
    /\ CacheFresh(cache, now)
    /\ address' = cache.value
    /\ extCalls' = 0
    /\ lastLookup' = Some([hit |-> TRUE, value |-> cache.value, before |-> cache,
                            at |-> now])
    /\ qosPc' = "send"
    /\ UNCHANGED <<buffer, output, count, srcAddr, cache, now, ticks, lastIn,
                   lastSent, qFails>>
    /\ UNCHANGED notQos

\* The value the two services yield, tried in order: the first parseable one
FirstValid(r1, r2) ==
    IF r1 = "ok" \/ r2 = "ok" THEN PublicIp ELSE NoAddr

\* Requests made: the second service is asked only when the first gave nothing
CallsMade(r1, r2) == IF r1 = "ok" THEN 1 ELSE 2

\* A fallback that ignores the source of the datagram
FallbackAddrLocalhost(src) == LOCALHOST

\* The fallback of the QoS loop when public_address() is None
FallbackAddr(src) == IF src.v4 THEN src.ip ELSE LOCALHOST

\* A slow path that stores only what an external service reported
PublicAddressLookupExtOnly(r1, r2, local) ==
    /\ qosPc = "addr"
    /\ ~CacheFresh(cache, now)
    /\ extCalls' = CallsMade(r1, r2)
    /\ lastLookup' = Some([hit |-> FALSE,
                            value |-> IF FirstValid(r1, r2) # NoAddr
                                      THEN FirstValid(r1, r2) ELSE local,
                            before |-> cache, at |-> now])
    /\ LET ext == FirstValid(r1, r2)
           value == IF ext # NoAddr THEN ext ELSE local
       IN  /\ cache' = IF ext # NoAddr
                       THEN CacheSet(ext, now + ADDR_CACHE_TIME) ELSE cache
           /\ address' = IF value # NoAddr THEN value ELSE FallbackAddr(srcAddr)
    /\ qosPc' = "send"
    /\ UNCHANGED <<buffer, output, count, srcAddr, now, ticks, lastIn, lastSent,
                   qFails>>
    /\ UNCHANGED notQos

\* public_address(), slow path: ask the services, then the local address;
\* store what was found, or return None and leave the cache alone.
PublicAddressLookup(r1, r2, local) ==
    /\ qosPc = "addr"
    /\ ~CacheFresh(cache, now)
    /\ extCalls' = CallsMade(r1, r2)
    /\ lastLookup' = Some([hit |-> FALSE,
                            value |-> IF FirstValid(r1, r2) # NoAddr
                                      THEN FirstValid(r1, r2) ELSE local,
                            before |-> cache, at |-> now])
    /\ LET ext == FirstValid(r1, r2)
           value == IF ext # NoAddr THEN ext ELSE local
       IN  IF value # NoAddr
           THEN /\ cache' = CacheSet(value, now + ADDR_CACHE_TIME)
                /\ address' = value
           ELSE /\ cache' = cache
                /\ address' = FallbackAddr(srcAddr)
    /\ qosPc' = "send"
    /\ UNCHANGED <<buffer, output, count, srcAddr, now, ticks, lastIn, lastSent,
                   qFails>>
    /\ UNCHANGED notQos

\* The bytes the loop writes into `output` for one datagram
FillOutput(out, buf, n, addr, port) ==
    LET addr_end == n + 4
        port_end == addr_end + 2
        total_length == port_end + 4
        o1 == CopyFromSlice(out, 0, n, Take(buf, n))
        o2 == CopyFromSlice(o1, n, addr_end, addr)
        o3 == CopyFromSlice(o2, addr_end, port_end, ToBeBytes16(port))
    IN  CopyFromSlice(o3, port_end, total_length, <<0, 0, 0, 0>>)

\* The slice handed to send_to: the whole output buffer
SentSlice(out, n) == out

\* A range start..end of a slice of `len` elements can be taken, and
\* copy_from_slice of `n` elements into it does not panic
RangeOk(len, start, end, n) == start <= end /\ end <= len /\ end - start = n

\* The ranges the loop takes for a datagram of n bytes: buffer[..n] and the
\* four destinations in output
LoopRangesOk(n) ==
    LET addr_end == n + 4
        port_end == addr_end + 2
        total_length == port_end + 4
    IN  /\ RangeOk(Len(buffer), 0, n, n)
        /\ RangeOk(Len(output), 0, n, n)
        /\ RangeOk(Len(output), n, addr_end, Len(address))
        /\ RangeOk(Len(output), addr_end, port_end,
                   Len(ToBeBytes16(srcAddr.port)))
        /\ RangeOk(Len(output), port_end, total_length, 4)

\* Build the response and socket.send_to(&output, addr); its result, Ok or
\* Err, is dropped by `let _ =` and the loop goes back to recv_from
QosSend(ok) ==
    /\ qosPc = "send"
    /\ output' = FillOutput(output, buffer, count, address, srcAddr.port)
    /\ lastSent' = Some([data |-> SentSlice(output', count), to |-> srcAddr,
                         addr |-> address, ok |-> ok, after |-> qFails])
    /\ qFails' = IF ok THEN qFails ELSE qFails \cup {"send"}
    /\ qosPc' = "recv"
    /\ UNCHANGED <<buffer, count, srcAddr, address, cache, now, ticks, lastIn,
                   extCalls, lastLookup>>
    /\ UNCHANGED notQos

\* A failed recv_from that leaves the loop
QosRecvErrBreak ==
    /\ qosPc = "recv"
    /\ qosPc' = "stopped"
    /\ qFails' = qFails \cup {"recv"}
    /\ UNCHANGED <<buffer, output, count, srcAddr, address, cache, now, ticks,
                   lastIn, lastSent, extCalls, lastLookup>>
    /\ UNCHANGED notQos

\* recv_from fails: Err(_) => continue
QosRecvErr ==
    /\ qosPc = "recv"
    /\ qosPc' = "recv"
    /\ qFails' = qFails \cup {"recv"}
    /\ UNCHANGED <<buffer, output, count, srcAddr, address, cache, now, ticks,
                   lastIn, lastSent, extCalls, lastLookup>>
    /\ UNCHANGED notQos

\* Time passes: one second, or just short of the cache time
Tick(d) ==
    /\ ticks < MaxTicks
    /\ ticks' = ticks + 1
    /\ now' = now + d
    /\ UNCHANGED <<qosPc, buffer, output, count, srcAddr, address, cache, lastIn,
                   lastSent, extCalls, lastLookup, qFails>>
    /\ UNCHANGED notQos

TickSteps == {1, ADDR_CACHE_TIME - 1}

(***************************************************************************)
(* servers/qos.rs: public_address() called by several tasks at once        *)
(***************************************************************************)
Callers == {"c1", "c2"}

InitAddr ==
    /\ aPc = [c \in Callers |-> "idle"]
    /\ aHolder = "free"
    /\ aIdx = [c \in Callers |-> 0]
    /\ aExt = [c \in Callers |-> 0]
    /\ aHit = [c \in Callers |-> FALSE]
    /\ aRet = [c \in Callers |-> None]
    /\ aSeen = [c \in Callers |-> [fresh |-> FALSE, value |-> NoAddr]]
    /\ aAtLock = [c \in Callers |-> FALSE]
    /\ aLog = [c \in Callers |-> <<>>]

\* The block at the top of public_address: under the read lock, the cached
\* value is returned when `time.lt(expires)`; otherwise the caller goes on
\* to PUBLIC_ADDR_CACHE.write().await
AddrCall(c) ==
    /\ aPc[c] = "idle"
    /\ aHolder = "free"
    /\ aSeen' = [aSeen EXCEPT ![c] =
                    [fresh |-> cache.set /\ now < cache.expires,
                     value |-> IF cache.set THEN cache.value ELSE NoAddr]]
    /\ aExt' = [aExt EXCEPT ![c] = 0]
    /\ aAtLock' = [aAtLock EXCEPT ![c] = FALSE]
    /\ IF CacheFresh(cache, now)
       THEN /\ aHit' = [aHit EXCEPT ![c] = TRUE]
            /\ aRet' = [aRet EXCEPT ![c] = Some(cache.value)]
            /\ aPc' = [aPc EXCEPT ![c] = "done"]
       ELSE /\ aHit' = [aHit EXCEPT ![c] = FALSE]
            /\ aRet' = [aRet EXCEPT ![c] = None]
            /\ aPc' = [aPc EXCEPT ![c] = "wait"]
    /\ aLog' = [aLog EXCEPT ![c] = <<>>]
    /\ UNCHANGED <<aHolder, aIdx, cache, now>>
    /\ UNCHANGED notAddr

\* let cached = &mut *PUBLIC_ADDR_CACHE.write().await: the lock is granted;
\* the caller goes straight to the first service (reqwest::get(address))
AddrAcquire(c) ==
    /\ aPc[c] = "wait"
    /\ aHolder = "free"
    /\ aHolder' = c
    /\ aAtLock' = [aAtLock EXCEPT ![c] = cache.set /\ now < cache.expires]
    /\ aIdx' = [aIdx EXCEPT ![c] = 1]
    /\ aExt' = [aExt EXCEPT ![c] = 1]
    /\ aPc' = [aPc EXCEPT ![c] = "req"]
    /\ UNCHANGED <<aHit, aRet, aSeen, aLog, cache, now>>
    /\ UNCHANGED notAddr

\* The end of public_address with `value`: None is returned through `value?`
\* with the cache untouched, Some is stored with its expiry and returned;
\* the write guard is dropped
AddrFinish(c, value) ==
    /\ cache' = IF value # NoAddr THEN CacheSet(value, now + ADDR_CACHE_TIME)
                ELSE cache
    /\ aRet' = [aRet EXCEPT ![c] = IF value # NoAddr THEN Some(value) ELSE None]
    /\ aHolder' = "free"
    /\ aIdx' = [aIdx EXCEPT ![c] = 0]
    /\ aPc' = [aPc EXCEPT ![c] = "done"]
    /\ UNCHANGED aExt

\* The log of caller c with the answer r of the service it asked
Asked(c, r) == Append(aLog[c], <<"ext", aIdx[c], r>>)

\* A loop over the services that gives up after the first one
AddrResponseOneService(c, r, local) ==
    /\ aPc[c] = "req"
    /\ IF r = "ok"
       THEN /\ AddrFinish(c, PublicIp)
            /\ aLog' = [aLog EXCEPT ![c] = Asked(c, r)]
       ELSE /\ AddrFinish(c, local)
            /\ aLog' = [aLog EXCEPT ![c] = Append(Asked(c, r), <<"local">>)]
    /\ UNCHANGED <<aHit, aSeen, aAtLock, now>>
    /\ UNCHANGED notAddr

\* The service the caller waits for answers with r: a parseable address ends
\* the loop, anything else moves on to the next service, and after the last
\* one to local_ip_address::local_ip()
AddrResponse(c, r, local) ==
    /\ aPc[c] = "req"
    /\ IF r = "ok"
       THEN /\ AddrFinish(c, PublicIp)
            /\ aLog' = [aLog EXCEPT ![c] = Asked(c, r)]
       ELSE IF aIdx[c] = 1
       THEN /\ aIdx' = [aIdx EXCEPT ![c] = 2]
            /\ aExt' = [aExt EXCEPT ![c] = 2]
            /\ aLog' = [aLog EXCEPT ![c] = Asked(c, r)]
            /\ UNCHANGED <<aPc, aHolder, aRet, cache>>
       ELSE /\ AddrFinish(c, local)
            /\ aLog' = [aLog EXCEPT ![c] = Append(Asked(c, r), <<"local">>)]
    /\ UNCHANGED <<aHit, aSeen, aAtLock, now>>
    /\ UNCHANGED notAddr

\* The service accepts the connection and never answers: reqwest::get has no
\* timeout, the await never completes and the write lock stays held
AddrHang(c) ==
    /\ aPc[c] = "req"
    /\ aPc' = [aPc EXCEPT ![c] = "hung"]
    /\ UNCHANGED <<aHolder, aIdx, aExt, aHit, aRet, aSeen, aAtLock, aLog, cache,
                   now>>
    /\ UNCHANGED notAddr

\* The caller has its value; it may call again
AddrReturn(c) ==
    /\ aPc[c] = "done"
    /\ aPc' = [aPc EXCEPT ![c] = "idle"]
    /\ aExt' = [aExt EXCEPT ![c] = 0]
    /\ aHit' = [aHit EXCEPT ![c] = FALSE]
    /\ aRet' = [aRet EXCEPT ![c] = None]
    /\ aSeen' = [aSeen EXCEPT ![c] = [fresh |-> FALSE, value |-> NoAddr]]
    /\ aAtLock' = [aAtLock EXCEPT ![c] = FALSE]
    /\ aLog' = [aLog EXCEPT ![c] = <<>>]
    /\ UNCHANGED <<aHolder, aIdx, cache, now>>
    /\ UNCHANGED notAddr

(***************************************************************************)
(* The shared connection context: main.rs TARGET, and the crate's TOKEN    *)
(***************************************************************************)
\* LookupData
LookupData1 == [scheme |-> "http", host |-> "a.example", version |-> "0.1.0",
                port |-> 80]

LookupData2 == [scheme |-> "https", host |-> "b.example", version |-> "0.2.0",
                port |-> 8443]

LookupResults == {LookupData1, LookupData2}

Tokens == {"tokenA", "tokenB"}

\* A token with a line feed in it, as a JSON string may carry
BadToken == "token\\nC"

\* The bytes of the tokens
TokenBytes(k) ==
    CASE k = "tokenA" -> <<116, 111, 107, 101, 110, 65>>
      [] k = "tokenB" -> <<116, 111, 107, 101, 110, 66>>
      [] k = BadToken -> <<116, 111, 107, 101, 110, 10, 67>>

\* HeaderValue::from_str: Err when a byte is a control character other than
\* tab, or DEL
HeaderValueFromStr(k) ==
    IF \A i \in 1..Len(TokenBytes(k)) :
          LET b == TokenBytes(k)[i] IN (b >= 32 /\ b # 127) \/ b = 9
    THEN Some(k)
    ELSE None

\* Option<LookupData> as it lies in memory: the tag and the four fields
NoTarget == [some |-> FALSE, scheme |-> "", host |-> "", version |-> "",
             port |-> 0]

SomeTarget(d) == [some |-> TRUE, scheme |-> d.scheme, host |-> d.host,
                  version |-> d.version, port |-> d.port]

\* value.clone() of the LookupData inside Some(value)
CloneTarget(t) == [scheme |-> t.scheme, host |-> t.host, version |-> t.version,
                   port |-> t.port]

\* The tasks that read the context: the proxy's handler, the tunnel's
\* handler and try_login
Readers == {"http", "tunnel", "login"}

\* LOCK.read().await is granted to reader r: it holds a read guard of lock l
Acquire(g, r, l) == [g EXCEPT ![r] = @ \cup {l}]

\* A guard that lives on to the end of the function
ReleaseAtReturn(g, r, l) == g

\* The guard is dropped: the end of the statement whose scrutinee took it,
\* or of the block it was bound in
Release(g, r, l) == [g EXCEPT ![r] = @ \ {l}]

\* A statement that takes the read guard of l and drops it at its end
ReadSection(g, r, l) == Release(Acquire(g, r, l), r, l)

\* TARGET.write().await is granted: no writer and no read guard
TargetWritable ==
    targetLock = "free" /\ \A r \in Readers : "TARGET" \notin guards[r]

InitCtxWith(t, k) ==
    /\ TARGET = t
    /\ TOKEN = k
    /\ targetLock = "free"
    /\ wPc = "idle"
    /\ wVal = LookupData1
    /\ written = IF t.some THEN {CloneTarget(t)} ELSE {}
    /\ guards = [r \in Readers |-> {}]
    /\ authPc = "idle"

\* The (TARGET, TOKEN) pairs that were current while the HTTP handler was
\* between its read of TARGET and its read of TOKEN
NotePair(t, k) ==
    hPairs' = IF hPc = "token" THEN hPairs \cup {<<t, k>>} ELSE hPairs

\* A write of the connection context begins or takes effect: the requests
\* and connections in hand were not taken after it
CtxWritten == hDirty' = TRUE /\ tDirty' = TRUE

\* try_update_host: try_lookup_host(target).await? succeeded with `result`;
\* TARGET.write().await is granted when no one else holds the lock.
UpdateHostAcquire(result) ==
    /\ wPc = "idle"
    /\ TargetWritable
    /\ targetLock' = "writer"
    /\ wVal' = result
    /\ written' = written \cup {result}
    /\ wPc' = "store1"
    /\ UNCHANGED <<TARGET, TOKEN, hPairs>>
    /\ CtxWritten
    /\ UNCHANGED notCtx

\* A try_update_host that would reset the target when the lookup fails
UpdateHostFailedClears ==
    /\ wPc = "idle"
    /\ TARGET' = NoTarget
    /\ UNCHANGED <<TOKEN, targetLock, wPc, wVal, written, hPairs>>
    /\ UNCHANGED freshVars
    /\ UNCHANGED notCtx

\* try_update_host: the lookup failed; `?` returns the error
UpdateHostFailed ==
    /\ wPc = "idle"
    /\ UNCHANGED <<ctxVars, hPairs>>
    /\ UNCHANGED freshVars
    /\ UNCHANGED notCtx

\* *write = Some(result.clone()): the store of the value is not one machine
\* word; its first part ...
UpdateHostStore1 ==
    /\ wPc = "store1"
    /\ TARGET' = [TARGET EXCEPT !.scheme = wVal.scheme, !.host = wVal.host]
    /\ wPc' = "store2"
    /\ UNCHANGED <<TOKEN, targetLock, wVal, written, hPairs>>
    /\ CtxWritten
    /\ UNCHANGED notCtx

\* ... and its second part
UpdateHostStore2 ==
    /\ wPc = "store2"
    /\ TARGET' = [TARGET EXCEPT !.version = wVal.version, !.port = wVal.port,
                                !.some = TRUE]
    /\ wPc' = "release"
    /\ NotePair(TARGET', TOKEN)
    /\ UNCHANGED <<TOKEN, targetLock, wVal, written>>
    /\ CtxWritten
    /\ UNCHANGED notCtx

\* the write guard is dropped when try_update_host returns
UpdateHostRelease ==
    /\ wPc = "release"
    /\ targetLock' = "free"
    /\ wPc' = "idle"
    /\ UNCHANGED <<TARGET, TOKEN, wVal, written, hPairs>>
    /\ UNCHANGED freshVars
    /\ UNCHANGED notCtx

\* setToken: the token of a successful login or account creation is stored
SetToken(k) ==
    /\ wPc = "idle"
    /\ TARGET.some
    /\ TOKEN' = Some(k)
    /\ NotePair(TARGET, TOKEN')
    /\ UNCHANGED <<TARGET, targetLock, wPc, wVal, written>>
    /\ CtxWritten
    /\ UNCHANGED notCtx

\* clear, on disconnect: the target is cleared ...
ClearTarget ==
    /\ wPc = "idle"
    /\ TargetWritable
    /\ TARGET.some
    /\ TARGET' = NoTarget
    /\ wPc' = "clearToken"
    /\ NotePair(TARGET', TOKEN)
    /\ UNCHANGED <<TOKEN, targetLock, wVal, written>>
    /\ CtxWritten
    /\ UNCHANGED notCtx

\* ... and then the token
ClearToken ==
    /\ wPc = "clearToken"
    /\ TOKEN' = None
    /\ wPc' = "idle"
    /\ NotePair(TARGET, TOKEN')
    /\ UNCHANGED <<TARGET, targetLock, wVal, written>>
    /\ CtxWritten
    /\ UNCHANGED notCtx

\* A read of TARGET that does not wait for the writer
TargetReadableAlways == TRUE

\* TARGET.read().await is granted while no writer holds the lock
TargetReadable == targetLock = "free"

(***************************************************************************)
(* api.rs                                                                  *)
(***************************************************************************)
\* create_target_url: scheme, "://", host, endpoint
create_target_url(target, endpoint) ==
    <<target.scheme, "://", target.host>> \o endpoint

\* Url::port_or_known_default for a URL that names no port
KnownDefaultPort(scheme) == IF scheme = "https" THEN 443 ELSE 80

\* Where a request to `url` is sent: the scheme and the host of the URL, and
\* the default port of the scheme, as the URL built above names no port
UrlDestination(url) ==
    [scheme |-> url[1], host |-> url[3], port |-> KnownDefaultPort(url[1])]

(***************************************************************************)
(* api.rs: try_login                                                       *)
(***************************************************************************)
notLogin == <<qosVars, addrVars, ctxVars, httpVars, tunVars, supVars, uiVars,
              freshVars, connVars, hostVars>>

\* let target = &*TARGET.read().await, inside the block that builds the URL:
\* the guard is bound for the block.  With no target, ok_or(MissingTarget)?
\* returns and drops it
LoginReadTarget ==
    /\ authPc = "idle"
    /\ TargetReadable
    /\ IF TARGET.some
       THEN /\ guards' = Acquire(guards, "login", "TARGET")
            /\ authPc' = "url"
       ELSE /\ guards' = ReadSection(guards, "login", "TARGET")
            /\ authPc' = "failed"
    /\ UNCHANGED notLogin

\* create_target_url(target, LOGIN_ENDPOINT) is the value of the block; the
\* block ends and the guard is dropped
LoginBlockEnd ==
    /\ authPc = "url"
    /\ guards' = Release(guards, "login", "TARGET")
    /\ authPc' = "send"
    /\ UNCHANGED notLogin

\* The request is sent and answered, or fails; try_login returns
LoginReturn ==
    /\ authPc \in {"send", "failed"}
    /\ authPc' = "idle"
    /\ UNCHANGED guards
    /\ UNCHANGED notLogin

(***************************************************************************)
(* HTTP messages                                                           *)
(***************************************************************************)
\* HeaderMap::get: the value of header `name`, if present
HeaderGet(headers, name) ==
    IF \E h \in headers : h[1] = name
    THEN Some((CHOOSE h \in headers : h[1] = name)[2])
    ELSE None

\* Decimal digits of a natural number, as {} formats an integer
RECURSIVE FormatDisplay(_)
FormatDisplay(n) ==
    LET digit == <<"0", "1", "2", "3", "4", "5", "6", "7", "8", "9">>
    IN  IF n < 10 THEN <<digit[n + 1]>>
        ELSE FormatDisplay(n \div 10) \o <<digit[(n % 10) + 1]>>

\* The tokens of `doc` between the tags `open` and `close`
Between(doc, open, close) ==
    LET i == CHOOSE j \in 1..Len(doc) : doc[j] = open
        k == CHOOSE j \in 1..Len(doc) : doc[j] = close
    IN  SubSeq(doc, i + 1, k - 1)

DISCOVERY_PATH == <<"/redirector/getServerInstance">>

StatusOk == 200
StatusServiceUnavailable == 503

(***************************************************************************)
(* servers/redirector.rs                                                   *)
(***************************************************************************)
\* The redirector announcing its own port
RedirectorPortOwn == REDIRECTOR_PORT

\* The port argument of the document's format!
RedirectorPort == MAIN_PORT

\* handle_http: the request is not looked at
RedirectorHandleHttp(req) ==
    LET addr == FromBeBytes32(<<127, 0, 0, 1>>)
        res ==
        <<"<?xml version=\"1.0\" encoding=\"UTF-8\"?>",
          "\n    ",
          "<serverinstanceinfo>",
          "\n        ",
          "<address member=\"0\">",
          "\n            ",
          "<valu>",
          "\n                ",
          "<hostname>",
          "localhost",
          "</hostname>",
          "\n                ",
          "<ip>">>
        \o FormatDisplay(addr)
        \o <<"</ip>",
          "\n                ",
          "<port>">>
        \o FormatDisplay(RedirectorPort)
        \o <<"</port>",
          "\n            ",
          "</valu>",
          "\n        ",
          "</address>",
          "\n        ",
          "<secure>",
          "0",
          "</secure>",
          "\n        ",
          "<trialservicename>",
          "</trialservicename>",
          "\n        ",
          "<defaultdnsaddress>",
          "0",
          "</defaultdnsaddress>",
          "\n    ",
          "</serverinstanceinfo>">>
    IN  [status |-> StatusOk,
         headers |-> {<<"X-BLAZE-COMPONENT", "redirector">>,
                      <<"X-BLAZE-COMMAND", "getServerInstance">>,
                      <<"X-BLAZE-SEQNO", "0">>,
                      <<"content-type", "application/xml">>},
         body |-> res]

(***************************************************************************)
(* servers/http.rs                                                         *)
(***************************************************************************)
TOKEN_HEADER == "X-Token"

\* The proxy announcing the redirector's port
InstancePortRedirector == REDIRECTOR_PORT

\* The port argument of the document's format!
InstancePort == MAIN_PORT

\* server_instance_response
ServerInstanceResponse ==
    LET addr == FromBeBytes32(<<127, 0, 0, 1>>)
        res ==
        <<"<?xml version=\"1.0\" encoding=\"UTF-8\"?>",
          "\n    ",
          "<serverinstanceinfo>",
          "\n        ",
          "<address member=\"0\">",
          "\n            ",
          "<valu>",
          "\n                ",
          "<hostname>",
          "localhost",
          "</hostname>",
          "\n                ",
          "<ip>">>
        \o FormatDisplay(addr)
        \o <<"</ip>",
          "\n                ",
          "<port>">>
        \o FormatDisplay(InstancePort)
        \o <<"</port>",
          "\n            ",
          "</valu>",
          "\n        ",
          "</address>",
          "\n        ",
          "<secure>",
          "0",
          "</secure>",
          "\n        ",
          "<trialservicename>",
          "</trialservicename>",
          "\n        ",
          "<defaultdnsaddress>",
          "0",
          "</defaultdnsaddress>",
          "\n    ",
          "</serverinstanceinfo>">>
    IN  [status |-> StatusOk,
         headers |-> {<<"X-BLAZE-COMPONENT", "redirector">>,
                      <<"X-BLAZE-COMMAND", "getServerInstance">>,
                      <<"X-BLAZE-SEQNO", "0">>,
                      <<"content-type", "application/xml">>},
         body |-> res]

\* The requests of the game client: method, path, query, headers, body
Methods == {"GET", "POST", "PUT", "PATCH", "DELETE"}

BodyMethods == {"POST", "PUT", "DELETE", "PATCH"}

Paths == {DISCOVERY_PATH, <<"/wal/api">>}

Queries == {"", "v=1"}

ContentHeaders == {<<"content-length", "10">>,
                   <<"content-type", "application/json">>,
                   <<"content-encoding", "gzip">>}

Request(m, p, q, hs) ==
    [method |-> m, path |-> p, query |-> q,
     headers |-> hs \cup {<<"user-agent", "game">>},
     body |-> IF <<"content-length", "10">> \in hs THEN "0123456789" ELSE ""]

AllRequests ==
    {Request(m, p, q, hs) : m \in Methods, p \in Paths, q \in Queries,
                            hs \in SUBSET ContentHeaders}

\* The responses of the remote server
UpstreamResponses ==
    [status : {200, 404},
     headers : SUBSET {<<"content-type", "application/json">>,
                       <<"set-cookie", "sid=1">>},
     body : {"", "{}"}]

\* uri.path_and_query().map(|value| value.as_str()).unwrap_or_default()
PathAndQuery(req) ==
    IF req.query = "" THEN req.path ELSE req.path \o <<"?", req.query>>

InitHttpWith(pool) ==
    /\ reqPool = pool
    /\ hPc = "idle"
    /\ hReq = None
    /\ hTarget = None
    /\ hToken = None
    /\ hPairs = {}
    /\ proxyReq = None
    /\ hSends = 0
    /\ proxyRes = None
    /\ hResp = None
    /\ rReq = None
    /\ rResp = None
    /\ hConn = "none"
    /\ hFail = "none"
    /\ hFails = {}
    /\ hListening = TRUE
    /\ hDirty = TRUE

\* listener.accept() yields a stream; a task is spawned for the connection,
\* the TLS handshake succeeds and serve_connection starts
HttpAccept ==
    /\ hListening
    /\ hConn \in {"none", "closed"}
    /\ hPc = "idle"
    /\ hConn' = "open"
    /\ hFail' = "none"
    /\ UNCHANGED <<hFails, hListening>>
    /\ UNCHANGED <<reqPool, hPc, hReq, hTarget, hToken, hPairs, proxyReq,
                   hSends, proxyRes, hResp, rReq, rResp>>
    /\ UNCHANGED notHttp

\* listener.accept() is Err: break ends the loop of start_server
HttpAcceptErr ==
    /\ hListening
    /\ hListening' = FALSE
    /\ hFails' = hFails \cup {"accept"}
    /\ UNCHANGED <<hConn, hFail>>
    /\ UNCHANGED <<reqPool, hPc, hReq, hTarget, hToken, hPairs, proxyReq,
                   hSends, proxyRes, hResp, rReq, rResp>>
    /\ UNCHANGED notHttp

\* The game closes its connection between two requests: serve_connection
\* returns and the connection's task ends
HttpConnClose ==
    /\ hConn = "open"
    /\ hPc = "idle"
    /\ hConn' = "closed"
    /\ UNCHANGED <<hFail, hFails, hListening>>
    /\ UNCHANGED <<reqPool, hPc, hReq, hTarget, hToken, hPairs, proxyReq,
                   hSends, proxyRes, hResp, rReq, rResp>>
    /\ UNCHANGED notHttp

\* service_fn(handle_http) is called with a request of the connection
HttpRecv(req) ==
    /\ hConn = "open"
    /\ hPc = "idle"
    /\ req \in reqPool
    /\ hReq' = Some(req)
    /\ hPc' = "route"
    /\ UNCHANGED <<reqPool, hTarget, hToken, hPairs, proxyReq, hSends,
                   proxyRes, hResp, rReq, rResp>>
    /\ UNCHANGED hConnVars
    /\ hDirty' = (wPc # "idle")
    /\ UNCHANGED notHttpRecv

\* handle_http has returned (or its task has ended): its locals are dropped
\* and the connection waits for the next request
HttpReturn ==
    /\ hPc = "done"
    /\ hPc' = "idle"
    /\ hReq' = None
    /\ hTarget' = None
    /\ hToken' = None
    /\ hPairs' = {}
    /\ proxyReq' = None
    /\ hSends' = 0
    /\ proxyRes' = None
    /\ hResp' = None
    /\ UNCHANGED <<reqPool, rReq, rResp>>
    /\ UNCHANGED hConnVars
    /\ hDirty' = TRUE
    /\ UNCHANGED notHttpRecv

\* if uri.path().eq("/redirector/getServerInstance")
HttpDiscovery ==
    /\ hPc = "route"
    /\ hReq.v.path = DISCOVERY_PATH
    /\ hResp' = Some(ServerInstanceResponse)
    /\ hPc' = "done"
    /\ UNCHANGED <<reqPool, hReq, hTarget, hToken, hPairs, proxyReq, hSends,
                   proxyRes, rReq, rResp>>
    /\ UNCHANGED hConnVars
    /\ UNCHANGED notHttp

\* A different answer when TARGET is None
UnavailableResponseBadGateway ==
    [status |-> 502, headers |-> {}, body |-> "no target"]

\* The response when TARGET is None
UnavailableResponse ==
    [status |-> StatusServiceUnavailable, headers |-> {}, body |-> ""]

\* A handler that uses the target it was given when the server started
HttpReadTargetCaptured ==
    /\ hPc = "route"
    /\ hReq.v.path # DISCOVERY_PATH
    /\ TargetReadable
    /\ IF TARGET.some
       THEN /\ hTarget' = Some(LookupData1)
            /\ hPairs' = {<<TARGET, TOKEN>>}
            /\ hPc' = "token"
            /\ UNCHANGED hResp
       ELSE /\ hResp' = Some(UnavailableResponse)
            /\ hPc' = "done"
            /\ UNCHANGED <<hTarget, hPairs>>
    /\ UNCHANGED <<reqPool, hReq, hToken, proxyReq, hSends, proxyRes, rReq,
                   rResp>>
    /\ UNCHANGED hConnVars
    /\ UNCHANGED notHttp

\* let target = match &*TARGET.read().await { Some(value) => value.clone(),
\* None => return 503 }
HttpReadTarget ==
    /\ hPc = "route"
    /\ hReq.v.path # DISCOVERY_PATH
    /\ TargetReadable
    /\ IF TARGET.some
       THEN /\ hTarget' = Some(CloneTarget(TARGET))
            /\ hPairs' = {<<TARGET, TOKEN>>}
            /\ hPc' = "token"
            /\ UNCHANGED hResp
       ELSE /\ hResp' = Some(UnavailableResponse)
            /\ hPc' = "done"
            /\ UNCHANGED <<hTarget, hPairs>>
    /\ UNCHANGED <<reqPool, hReq, hToken, proxyReq, hSends, proxyRes, rReq,
                   rResp>>
    /\ UNCHANGED hConnVars
    /\ guards' = ReadSection(guards, "http", "TARGET")
    /\ UNCHANGED notHttpRead

\* The content headers copied to the outbound request of a body method
ForwardedHeaders(req) ==
    LET length == HeaderGet(req.headers, "content-length")
        ctype == HeaderGet(req.headers, "content-type")
    IN  (IF length.some THEN {<<"content-length", length.v>>} ELSE {})
        \cup (IF ctype.some THEN {<<"content-type", ctype.v>>} ELSE {})

\* The outbound request: client.request(method, url), the token header if a
\* token is present, and for POST, PUT, DELETE and PATCH the content headers
\* and the body
BuildProxyReq(req, target, token) ==
    LET url == create_target_url(target, PathAndQuery(req))
        auth == IF token.some THEN {<<TOKEN_HEADER, token.v>>} ELSE {}
    IN  IF req.method \in BodyMethods
        THEN [method |-> req.method, url |-> url,
              headers |-> auth \cup ForwardedHeaders(req),
              body |-> Some(req.body)]
        ELSE [method |-> req.method, url |-> url, headers |-> auth,
              body |-> None]

\* if let Some(token) = &*TOKEN.read().await { ... }, and the rest of the
\* outbound request.  HeaderValue::from_str(token).unwrap() panics on a token
\* that is no header value: the connection's task ends there.
HttpReadToken ==
    /\ hPc = "token"
    /\ hToken' = TOKEN
    /\ IF TOKEN.some /\ ~HeaderValueFromStr(TOKEN.v).some
       THEN /\ hPc' = "done"
            /\ hConn' = "closed"
            /\ hFail' = "token"
            /\ hFails' = hFails \cup {"token"}
            /\ UNCHANGED <<proxyReq, hListening>>
       ELSE /\ proxyReq' = Some(BuildProxyReq(hReq.v, hTarget.v, TOKEN))
            /\ hPc' = "send"
            /\ UNCHANGED hConnVars
    /\ UNCHANGED <<reqPool, hReq, hTarget, hPairs, hSends, proxyRes, hResp,
                   rReq, rResp>>
    /\ guards' = ReadSection(guards, "http", "TOKEN")
    /\ UNCHANGED notHttpRead

\* proxy_req.send().await.unwrap(): the upstream answers
HttpSendOk(res) ==
    /\ hPc = "send"
    /\ hSends' = hSends + 1
    /\ proxyRes' = Some(res)
    /\ hPc' = "respond"
    /\ UNCHANGED <<reqPool, hReq, hTarget, hToken, hPairs, proxyReq, hResp,
                   rReq, rResp>>
    /\ UNCHANGED hConnVars
    /\ UNCHANGED notHttp

\* A transport failure that also ends the accept loop
HttpSendErrEndsLoop ==
    /\ hPc = "send"
    /\ hSends' = hSends + 1
    /\ hPc' = "done"
    /\ hConn' = "closed"
    /\ hFail' = "transport"
    /\ hFails' = hFails \cup {"transport"}
    /\ hListening' = FALSE
    /\ UNCHANGED <<reqPool, hReq, hTarget, hToken, hPairs, proxyReq, proxyRes,
                   hResp, rReq, rResp>>
    /\ UNCHANGED notHttp

\* proxy_req.send().await.unwrap(): a transport failure; unwrap panics, the
\* panic unwinds to the boundary of the task spawned for the connection, the
\* task ends, the connection is dropped and the game gets no response
HttpSendErr ==
    /\ hPc = "send"
    /\ hSends' = hSends + 1
    /\ hPc' = "done"
    /\ hConn' = "closed"
    /\ hFail' = "transport"
    /\ hFails' = hFails \cup {"transport"}
    /\ UNCHANGED hListening
    /\ UNCHANGED <<reqPool, hReq, hTarget, hToken, hPairs, proxyReq, proxyRes,
                   hResp, rReq, rResp>>
    /\ UNCHANGED notHttp

\* A response that passes every upstream header on
BuildResponseAllHeaders(res) ==
    [status |-> res.status, headers |-> res.headers, body |-> res.body]

\* The response for the game: the upstream's status, its content-type if it
\* has one, and its body
BuildResponse(res) ==
    LET ctype == HeaderGet(res.headers, "content-type")
    IN  [status |-> res.status,
         headers |-> IF ctype.some THEN {<<"content-type", ctype.v>>} ELSE {},
         body |-> res.body]

\* the rest of handle_http after the upstream's response has arrived
HttpRespond ==
    /\ hPc = "respond"
    /\ hResp' = Some(BuildResponse(proxyRes.v))
    /\ hPc' = "done"
    /\ UNCHANGED <<reqPool, hReq, hTarget, hToken, hPairs, proxyReq, hSends,
                   proxyRes, rReq, rResp>>
    /\ UNCHANGED hConnVars
    /\ UNCHANGED notHttp

\* The redirector serves a request of one of its connections
RedirectorServe(req) ==
    /\ req \in reqPool
    /\ rReq' = Some(req)
    /\ rResp' = Some(RedirectorHandleHttp(req))
    /\ UNCHANGED <<reqPool, hPc, hReq, hTarget, hToken, hPairs, proxyReq,
                   hSends, proxyRes, hResp>>
    /\ UNCHANGED hConnVars
    /\ UNCHANGED notHttp

(***************************************************************************)
(* servers/main.rs: the tunnel                                             *)
(***************************************************************************)
\* Bound of the relay model: bytes written by each side
MaxBytes == 2

Bytes == {1, 2}

InitTun ==
    /\ tPc = "idle"
    /\ tTarget = None
    /\ tToken = None
    /\ cOut = <<>>
    /\ cWire = <<>>
    /\ c2sBuf = <<>>
    /\ sIn = <<>>
    /\ sOut = <<>>
    /\ sWire = <<>>
    /\ s2cBuf = <<>>
    /\ cIn = <<>>
    /\ tSends = 0
    /\ tFail = "none"
    /\ tFails = {}
    /\ tListening = TRUE
    /\ tReq = None
    /\ cSide = "open"
    /\ sSide = "open"
    /\ c2sDone = FALSE
    /\ s2cDone = FALSE
    /\ tDirty = TRUE

tunMeta == <<tSends, tFail, tFails, tListening, tReq>>

endVars == <<cSide, sSide, c2sDone, s2cDone>>

relayVars == <<cOut, cWire, c2sBuf, sIn, sOut, sWire, s2cBuf, cIn, endVars>>

\* listener.accept() yields a stream; tokio::spawn(handle_client(stream))
TunAccept ==
    /\ tListening
    /\ tPc \in {"idle", "closed"}
    /\ tPc' = "target"
    /\ tSends' = 0
    /\ tFail' = "none"
    /\ UNCHANGED <<tFails, tListening>>
    /\ tReq' = None
    /\ tTarget' = None
    /\ tToken' = None
    /\ cOut' = <<>>
    /\ cWire' = <<>>
    /\ c2sBuf' = <<>>
    /\ sIn' = <<>>
    /\ sOut' = <<>>
    /\ sWire' = <<>>
    /\ s2cBuf' = <<>>
    /\ cIn' = <<>>
    /\ cSide' = "open"
    /\ sSide' = "open"
    /\ c2sDone' = FALSE
    /\ s2cDone' = FALSE
    /\ tDirty' = (wPc # "idle")
    /\ UNCHANGED notTunAccept

\* handle_client going on to the token although no target is set
TunReadTargetProceed ==
    /\ tPc = "target"
    /\ tTarget' = (IF TARGET.some THEN Some(CloneTarget(TARGET)) ELSE None)
    /\ tPc' = "token"
    /\ UNCHANGED <<tToken, relayVars, tunMeta>>
    /\ UNCHANGED notTun

\* let target = match &*TARGET.read().await { Some(value) => value.clone(),
\* None => return }
TunReadTarget ==
    /\ tPc = "target"
    /\ TargetReadable
    /\ IF TARGET.some
       THEN /\ tTarget' = Some(CloneTarget(TARGET))
            /\ tPc' = "token"
            /\ UNCHANGED <<tFail, tFails>>
       ELSE /\ tTarget' = None
            /\ tPc' = "closed"
            /\ tFail' = "notarget"
            /\ tFails' = tFails \cup {"notarget"}
    /\ UNCHANGED <<tToken, relayVars, tSends, tListening, tReq>>
    /\ guards' = ReadSection(guards, "tunnel", "TARGET")
    /\ UNCHANGED notTunRead

\* The names of the headers of the upgrade request
HEADER_SCHEME == "X-Pocket-Ark-Scheme"

HEADER_PORT == "X-Pocket-Ark-Port"

HEADER_HOST == "X-Pocket-Ark-Host"

HEADER_AUTH == "X-Pocket-Ark-Auth"

UPGRADE_ENDPOINT == <<"/ark/client/upgrade">>

\* The request handle_client builds: GET of the upgrade URL with the upgrade
\* headers; HeaderValue::from(target.port) is the port in decimal digits
UpgradeRequest(target, token) ==
    [method |-> "GET",
     url |-> create_target_url(target, UPGRADE_ENDPOINT),
     headers |-> {<<"connection", "Upgrade">>,
                  <<"upgrade", "blaze">>,
                  <<HEADER_SCHEME, target.scheme>>,
                  <<HEADER_PORT, FormatDisplay(target.port)>>,
                  <<HEADER_AUTH, token>>,
                  <<HEADER_HOST, target.host>>}]

\* let token = match &*TOKEN.read().await { Some(value) => value.clone(),
\* None => return }; the token that is no header value ends the task as
\* well; otherwise the request is built and sent
TunReadToken ==
    /\ tPc = "token"
    /\ IF TOKEN.some /\ HeaderValueFromStr(TOKEN.v).some
       THEN /\ tToken' = TOKEN
            /\ tPc' = "request"
            /\ tSends' = tSends + 1
            /\ tReq' = Some(UpgradeRequest(tTarget.v, TOKEN.v))
            /\ UNCHANGED <<tFail, tFails>>
       ELSE /\ tToken' = TOKEN
            /\ tPc' = "closed"
            /\ tFail' = (IF TOKEN.some THEN "token" ELSE "notoken")
            /\ tFails' = tFails \cup {IF TOKEN.some THEN "token" ELSE "notoken"}
            /\ UNCHANGED <<tSends, tReq>>
    /\ UNCHANGED <<tTarget, relayVars, tListening>>
    /\ guards' = ReadSection(guards, "tunnel", "TOKEN")
    /\ UNCHANGED notTunRead

\* request.await and response.upgrade().await both succeed
TunUpgraded ==
    /\ tPc = "request"
    /\ tPc' = "relay"
    /\ UNCHANGED <<tTarget, tToken, relayVars, tunMeta>>
    /\ UNCHANGED notTun

\* The ways the upgrade can fail: request.await is Err (connection refused),
\* or the response is no upgrade and response.upgrade().await is Err
UpgradeFailures == {"refused", "noupgrade"}

\* A failed upgrade that sends the request once more
TunUpgradeFailedRetry(why) ==
    /\ tPc = "request"
    /\ tSends < 3
    /\ tSends' = tSends + 1
    /\ tFails' = tFails \cup {why}
    /\ UNCHANGED <<tPc, tTarget, tToken, relayVars, tFail, tListening, tReq>>
    /\ UNCHANGED notTun

\* request.await or response.upgrade().await fails: return
TunUpgradeFailed(why) ==
    /\ tPc = "request"
    /\ tPc' = "closed"
    /\ tFail' = why
    /\ tFails' = tFails \cup {why}
    /\ UNCHANGED <<tTarget, tToken, relayVars, tSends, tListening, tReq>>
    /\ UNCHANGED notTun

\* listener.accept() is Err: the `while let Ok(..)` loop of start_server ends
TunAcceptErr ==
    /\ tListening
    /\ tListening' = FALSE
    /\ tFails' = tFails \cup {"accept"}
    /\ UNCHANGED <<tPc, tTarget, tToken, relayVars, tSends, tFail, tReq>>
    /\ UNCHANGED notTun

\* The game writes a byte to its connection
ClientWrite(b) ==
    /\ tPc \in {"target", "token", "request", "relay"}
    /\ cSide = "open"
    /\ Len(cOut) < MaxBytes
    /\ cOut' = Append(cOut, b)
    /\ cWire' = Append(cWire, b)
    /\ UNCHANGED <<tPc, tTarget, tToken, c2sBuf, sIn, sOut, sWire, s2cBuf, cIn,
                   tunMeta, endVars>>
    /\ UNCHANGED notTun

\* The server writes a byte to the upgraded stream
ServerWrite(b) ==
    /\ tPc = "relay"
    /\ sSide = "open"
    /\ Len(sOut) < MaxBytes
    /\ sOut' = Append(sOut, b)
    /\ sWire' = Append(sWire, b)
    /\ UNCHANGED <<tPc, tTarget, tToken, cOut, cWire, c2sBuf, sIn, s2cBuf, cIn,
                   tunMeta, endVars>>
    /\ UNCHANGED notTun

\* A transfer that takes the bytes from the end of `from`
TransferFromEnd(from, to, n) ==
    [from |-> Take(from, Len(from) - n),
     to |-> to \o Drop(from, Len(from) - n)]

\* One transfer of copy_bidirectional: the first n bytes of `from` are moved
\* to the end of `to`
Transfer(from, to, n) ==
    [from |-> Drop(from, n), to |-> to \o Take(from, n)]

\* copy_bidirectional, game to server: a read of the game's stream into the
\* buffer
RelayReadClient(n) ==
    /\ tPc = "relay"
    /\ n \in 1..Len(cWire)
    /\ LET t == Transfer(cWire, c2sBuf, n)
       IN  cWire' = t.from /\ c2sBuf' = t.to
    /\ UNCHANGED <<tPc, tTarget, tToken, cOut, sIn, sOut, sWire, s2cBuf, cIn>>
    /\ UNCHANGED <<tunMeta, endVars>>
    /\ UNCHANGED notTun

\* copy_bidirectional, game to server: a write of the buffer to the server
RelayWriteServer(n) ==
    /\ tPc = "relay"
    /\ n \in 1..Len(c2sBuf)
    /\ LET t == Transfer(c2sBuf, sIn, n)
       IN  c2sBuf' = t.from /\ sIn' = t.to
    /\ UNCHANGED <<tPc, tTarget, tToken, cOut, cWire, sOut, sWire, s2cBuf, cIn>>
    /\ UNCHANGED <<tunMeta, endVars>>
    /\ UNCHANGED notTun

\* copy_bidirectional, server to game: a read of the upgraded stream
RelayReadServer(n) ==
    /\ tPc = "relay"
    /\ n \in 1..Len(sWire)
    /\ LET t == Transfer(sWire, s2cBuf, n)
       IN  sWire' = t.from /\ s2cBuf' = t.to
    /\ UNCHANGED <<tPc, tTarget, tToken, cOut, cWire, c2sBuf, sIn, sOut, cIn>>
    /\ UNCHANGED <<tunMeta, endVars>>
    /\ UNCHANGED notTun

\* copy_bidirectional, server to game: a write of the buffer to the game
RelayWriteClient(n) ==
    /\ tPc = "relay"
    /\ n \in 1..Len(s2cBuf)
    /\ LET t == Transfer(s2cBuf, cIn, n)
       IN  s2cBuf' = t.from /\ cIn' = t.to
    /\ UNCHANGED <<tPc, tTarget, tToken, cOut, cWire, c2sBuf, sIn, sOut, sWire>>
    /\ UNCHANGED <<tunMeta, endVars>>
    /\ UNCHANGED notTun

\* A peer ends its side: `who` is "game" or "server", `how` is "closed" (its
\* stream ends after the bytes it wrote) or "reset" (reads and writes of the
\* stream fail from now on)
PeerEnd(who, how) ==
    /\ tPc = "relay"
    /\ IF who = "game"
       THEN cSide = "open" /\ cSide' = how /\ UNCHANGED sSide
       ELSE sSide = "open" /\ sSide' = how /\ UNCHANGED cSide
    /\ UNCHANGED <<tPc, tTarget, tToken, cOut, cWire, c2sBuf, sIn, sOut, sWire,
                   s2cBuf, cIn, tunMeta, c2sDone, s2cDone>>
    /\ UNCHANGED notTun

\* copy_bidirectional, game to server: the read of the game's stream yields
\* 0 bytes; what was buffered is written, the write half of the server's
\* stream is shut down and the direction is done
RelayEofClient ==
    /\ tPc = "relay"
    /\ cSide = "closed" /\ cWire = <<>> /\ c2sBuf = <<>> /\ ~c2sDone
    /\ c2sDone' = TRUE
    /\ UNCHANGED <<tPc, tTarget, tToken, cOut, cWire, c2sBuf, sIn, sOut, sWire,
                   s2cBuf, cIn, tunMeta, cSide, sSide, s2cDone>>
    /\ UNCHANGED notTun

\* copy_bidirectional, server to game: the same for the upgraded stream
RelayEofServer ==
    /\ tPc = "relay"
    /\ sSide = "closed" /\ sWire = <<>> /\ s2cBuf = <<>> /\ ~s2cDone
    /\ s2cDone' = TRUE
    /\ UNCHANGED <<tPc, tTarget, tToken, cOut, cWire, c2sBuf, sIn, sOut, sWire,
                   s2cBuf, cIn, tunMeta, cSide, sSide, c2sDone>>
    /\ UNCHANGED notTun

\* copy_bidirectional returns: both directions are done, or a read or a
\* write failed; its result is ignored and handle_client ends, dropping both
\* streams
RelayEnd ==
    /\ tPc = "relay"
    /\ (c2sDone /\ s2cDone) \/ cSide = "reset" \/ sSide = "reset"
    /\ tPc' = "closed"
    /\ UNCHANGED <<tTarget, tToken, relayVars, tunMeta>>
    /\ UNCHANGED notTun

(***************************************************************************)
(* servers.rs: starting and stopping the servers                           *)
(***************************************************************************)
\* Bound of the supervisor model: calls of start_all_servers
MaxGen == 2

\* The four servers start_all_servers spawns; each binds its own fixed port
Services == {"redirector", "blaze", "http", "qos"}

Live(ts) == {t \in ts : t.st \in {"spawned", "serving"}}

InitSupWith(ext) ==
    /\ tasks = {}
    /\ bound = {}
    /\ extHeld = ext
    /\ gen = 0
    /\ errors = {}
    /\ procExit = FALSE
    /\ conns = {}
    /\ lastOp = "none"
    /\ genArgs = None

\* A stop that cancels the recorded tasks and does not wait for them
StopServerTasksNoJoin(ts) == {[t EXCEPT !.st = "cancelled"] : t \in Live(ts)}

\* stop_server_tasks: every recorded task is cancelled and has terminated
\* when it returns; the sockets of a terminated task are closed
StopServerTasks(ts) == {}

\* the ports still bound once the tasks `ts` are all that is left
PortsOf(ts, b) == {x \in b : \E t \in ts : t.svc = x[1] /\ t.gen = x[2]}

\* spawn_server_task, four times: the tasks of generation g
SpawnServerTasks(g) == {[gen |-> g, svc |-> s, st |-> "spawned"] : s \in Services}

\* start_all_servers without the stop of the running tasks
StartAllTasksNoStop(ts, g) == ts \cup SpawnServerTasks(g)

\* The tasks after start_all_servers: the running ones are stopped first,
\* then the four servers are spawned
StartAllTasks(ts, g) == StopServerTasks(ts) \cup SpawnServerTasks(g)

\* The arguments of start_all_servers: the base URL of the server and the
\* token of the session
StartArgs == {[target |-> LookupData1, token |-> "tokenA"],
              [target |-> LookupData2, token |-> "tokenB"]}

\* The body of start_all_servers: the arguments are cloned and moved into
\* the spawned servers
StartAllServersDo ==
    /\ gen' = gen + 1
    /\ \E args \in StartArgs : genArgs' = Some(args)
    /\ tasks' = StartAllTasks(tasks, gen')
    /\ bound' = PortsOf(tasks' \ SpawnServerTasks(gen'), bound)
    /\ TARGET' = NoTarget
    /\ TOKEN' = None
    /\ CtxWritten
    /\ lastOp' = "start"
    /\ UNCHANGED <<targetLock, wPc, wVal, written, extHeld, errors, procExit,
                   conns>>

\* start_all_servers
StartAllServers ==
    /\ ~procExit
    /\ gen < MaxGen
    /\ StartAllServersDo
    /\ UNCHANGED notSup

\* The body of stop_server_tasks; it then clears the connection context
StopAllDo ==
    /\ tasks' = StopServerTasks(tasks)
    /\ bound' = PortsOf(tasks', bound)
    /\ TARGET' = NoTarget
    /\ TOKEN' = None
    /\ CtxWritten
    /\ lastOp' = "stop"
    /\ UNCHANGED <<targetLock, wPc, wVal, written, extHeld, gen, errors,
                   procExit, conns, genArgs>>

\* stop_server_tasks called on its own (disconnect)
StopAll ==
    /\ ~procExit
    /\ StopAllDo
    /\ UNCHANGED notSup

\* Who holds the port of service s: another process, a task of this process,
\* or no one
PortHolder(s) ==
    IF s \in extHeld THEN "external"
    ELSE IF \E x \in bound : x[1] = s THEN "own"
    ELSE "free"

\* The Err arm of the bind in start_server: after show_error, exit(1) ends
\* the process, and with it every task and every socket
BindFailed(t) ==
    /\ tasks' = {[x EXCEPT !.st = IF x = t THEN "failed" ELSE "exited"] :
                    x \in tasks}
    /\ bound' = {}
    /\ conns' = {}
    /\ procExit' = TRUE

\* A spawned server binds its port: it serves, or the bind fails and the
\* error is shown (show_error)
ServerBind(t) ==
    /\ ~procExit
    /\ t \in tasks
    /\ t.st = "spawned"
    /\ IF PortHolder(t.svc) = "free"
       THEN /\ bound' = bound \cup {<<t.svc, t.gen>>}
            /\ tasks' = (tasks \ {t}) \cup {[t EXCEPT !.st = "serving"]}
            /\ UNCHANGED <<errors, procExit, conns>>
       ELSE /\ errors' = errors \cup {<<t.svc, t.gen, PortHolder(t.svc)>>}
            /\ BindFailed(t)
    /\ UNCHANGED <<ctxVars, extHeld, gen, lastOp, genArgs>>
    /\ UNCHANGED freshVars
    /\ UNCHANGED notSup

\* The servers whose accept loop spawns a task for each connection
ConnServices == {"redirector", "blaze", "http"}

\* listener.accept() in a serving task, then tokio::spawn of the connection's
\* work; the JoinHandle is dropped, the task is recorded nowhere
ConnAccept(t) ==
    /\ ~procExit
    /\ t \in tasks
    /\ t.st = "serving"
    /\ t.svc \in ConnServices
    /\ conns' = conns \cup {[svc |-> t.svc, gen |-> t.gen]}
    /\ UNCHANGED <<ctxVars, tasks, bound, extHeld, gen, errors, procExit, lastOp,
                   genArgs>>
    /\ UNCHANGED freshVars
    /\ UNCHANGED notSup

\* The work for a connection comes to its end
ConnEnd(c) ==
    /\ ~procExit
    /\ c \in conns
    /\ conns' = conns \ {c}
    /\ UNCHANGED <<ctxVars, tasks, bound, extHeld, gen, errors, procExit, lastOp,
                   genArgs>>
    /\ UNCHANGED freshVars
    /\ UNCHANGED notSup

(***************************************************************************)
(* ui/iced.rs and ui/native.rs: the front-ends that start and stop the     *)
(* servers                                                                 *)
(***************************************************************************)
\* Bound of the front-end model: requests of one kind in flight
MaxPending == 2

InitUiWith(f) ==
    /\ frontend = f
    /\ appState = IF f = "iced" THEN "Default" ELSE "Connect"
    /\ lookupResult = "None"
    /\ lookups = 0
    /\ auths = 0
    /\ nextState = "none"
    /\ lastEvent = "none"

\* The servers and the connection context are left alone
SupUnchanged == UNCHANGED <<supVars, ctxVars, freshVars>>

\* ---- ui/iced.rs, App::update
\* AppMessage::UpdateTarget: nothing while a lookup is loading; otherwise the
\* lookup is started
IcedUpdateTarget ==
    /\ frontend = "iced"
    /\ appState = "Default"
    /\ lookupResult # "Loading"
    /\ lookups < MaxPending
    /\ lookupResult' = "Loading"
    /\ lookups' = lookups + 1
    /\ lastEvent' = "UpdateTarget"
    /\ UNCHANGED <<frontend, appState, auths, nextState>>
    /\ SupUnchanged
    /\ UNCHANGED notUi

\* AppMessage::LookupState(value), sent when a lookup completes
IcedLookupState(value) ==
    /\ frontend = "iced"
    /\ lookups > 0
    /\ lookups' = lookups - 1
    /\ appState' = IF value = "Success" THEN "Login" ELSE appState
    /\ lookupResult' = value
    /\ lastEvent' = "LookupState"
    /\ UNCHANGED <<frontend, auths, nextState>>
    /\ SupUnchanged
    /\ UNCHANGED notUi

\* AppMessage::SetState(state): the servers are started when the state is
\* Running and the lookup result is Success; then the state is stored
IcedSetState(state) ==
    /\ IF state = "Running" /\ lookupResult = "Success"
       THEN gen < MaxGen /\ StartAllServersDo
       ELSE SupUnchanged
    /\ appState' = state
    /\ lastEvent' = "SetState"

\* The buttons of the login and create views: SetState(Create), SetState(Login)
IcedSwapAuth(state) ==
    /\ frontend = "iced"
    /\ ~procExit
    /\ appState \in {"Login", "Create"}
    /\ state \in {"Login", "Create"} \ {appState}
    /\ IcedSetState(state)
    /\ UNCHANGED <<frontend, lookupResult, lookups, auths, nextState>>
    /\ UNCHANGED notUi

\* AppMessage::AttemptLogin / AttemptCreate: the request is sent when the
\* state matches and the lookup result is Success
IcedAttemptAuth ==
    /\ frontend = "iced"
    /\ appState \in {"Login", "Create"}
    /\ lookupResult = "Success"
    /\ auths < MaxPending
    /\ auths' = auths + 1
    /\ lastEvent' = "AttemptAuth"
    /\ UNCHANGED <<frontend, appState, lookupResult, lookups, nextState>>
    /\ SupUnchanged
    /\ UNCHANGED notUi

\* The request completes: post_login sends SetState(Running(token)) or
\* AuthState(Error)
IcedAuthDone(ok) ==
    /\ frontend = "iced"
    /\ ~procExit
    /\ auths > 0
    /\ auths' = auths - 1
    /\ IF ok THEN IcedSetState("Running")
       ELSE /\ lastEvent' = "AuthState"
            /\ UNCHANGED appState
            /\ SupUnchanged
    /\ UNCHANGED <<frontend, lookupResult, lookups, nextState>>
    /\ UNCHANGED notUi

\* AppMessage::Disconnect: the state and the lookup result are reset
IcedDisconnect ==
    /\ frontend = "iced"
    /\ ~procExit
    /\ appState = "Running"
    /\ appState' = "Default"
    /\ lookupResult' = "None"
    /\ lastEvent' = "Disconnect"
    /\ SupUnchanged
    /\ UNCHANGED <<frontend, lookups, auths, nextState>>
    /\ UNCHANGED notUi

\* ---- ui/native.rs
\* handle_connect: the lookup is started in its own task
NativeConnect ==
    /\ frontend = "native"
    /\ appState = "Connect"
    /\ lookups < MaxPending
    /\ lookups' = lookups + 1
    /\ lastEvent' = "Connect"
    /\ UNCHANGED <<frontend, appState, lookupResult, auths, nextState>>
    /\ SupUnchanged
    /\ UNCHANGED notUi

\* The lookup task ends: next_state is set to State(Login) or Error and the
\* notice is sent
NativeLookupDone(ok) ==
    /\ frontend = "native"
    /\ lookups > 0
    /\ lookups' = lookups - 1
    /\ nextState' = IF ok THEN "Login" ELSE "Error"
    /\ UNCHANGED <<frontend, appState, lookupResult, auths, lastEvent>>
    /\ SupUnchanged
    /\ UNCHANGED notUi

\* handle_login / handle_create: the request is started in its own task
NativeAttemptAuth ==
    /\ frontend = "native"
    /\ appState \in {"Login", "Create"}
    /\ auths < MaxPending
    /\ auths' = auths + 1
    /\ lastEvent' = "AttemptAuth"
    /\ UNCHANGED <<frontend, appState, lookupResult, lookups, nextState>>
    /\ SupUnchanged
    /\ UNCHANGED notUi

\* The request task ends: next_state is set to State(Running) or Error
NativeAuthDone(ok) ==
    /\ frontend = "native"
    /\ auths > 0
    /\ auths' = auths - 1
    /\ nextState' = IF ok THEN "Running" ELSE "Error"
    /\ UNCHANGED <<frontend, appState, lookupResult, lookups, lastEvent>>
    /\ SupUnchanged
    /\ UNCHANGED notUi

\* start_all_servers followed by stop_server_tasks
StartThenStopDo ==
    /\ gen' = gen + 1
    /\ \E args \in StartArgs : genArgs' = Some(args)
    /\ tasks' = StopServerTasks(StartAllTasks(tasks, gen'))
    /\ bound' = PortsOf(tasks', bound)
    /\ TARGET' = NoTarget
    /\ TOKEN' = None
    /\ CtxWritten
    /\ lastOp' = "stop"
    /\ UNCHANGED <<targetLock, wPc, wVal, written, extHeld, errors, procExit,
                   conns>>

\* set_app_state(state): the state is swapped in, and the servers are stopped
\* if the old state was Running; `started` tells that the caller has just
\* called start_all_servers
SetAppState(state, started) ==
    /\ appState' = state
    /\ IF started
       THEN /\ gen < MaxGen
            /\ IF appState = "Running" THEN StartThenStopDo
               ELSE StartAllServersDo
       ELSE IF appState = "Running" THEN StopAllDo ELSE SupUnchanged

\* handle_next_state: the slot is taken; Error changes labels only; a state
\* is set up (Running: start_all_servers) and passed to set_app_state
NativeHandleNextState ==
    /\ frontend = "native"
    /\ ~procExit
    /\ nextState # "none"
    /\ nextState' = "none"
    /\ lastEvent' = "NextState"
    /\ IF nextState = "Error"
       THEN UNCHANGED appState /\ SupUnchanged
       ELSE SetAppState(nextState, nextState = "Running")
    /\ UNCHANGED <<frontend, lookupResult, lookups, auths>>
    /\ UNCHANGED notUi

\* swap_auth_state: Login to Create and back
NativeSwapAuth ==
    /\ frontend = "native"
    /\ appState \in {"Login", "Create"}
    /\ SetAppState(IF appState = "Login" THEN "Create" ELSE "Login", FALSE)
    /\ lastEvent' = "SwapAuth"
    /\ UNCHANGED <<frontend, lookupResult, lookups, auths, nextState>>
    /\ UNCHANGED notUi

\* handle_disconnect (the button of the login, create and running frames):
\* set_app_state(AppState::Connect)
NativeDisconnect ==
    /\ frontend = "native"
    /\ ~procExit
    /\ appState \in {"Login", "Create", "Running"}
    /\ SetAppState("Connect", FALSE)
    /\ lastEvent' = "Disconnect"
    /\ UNCHANGED <<frontend, lookupResult, lookups, auths, nextState>>
    /\ UNCHANGED notUi

(***************************************************************************)
(* The accept loops and the tasks of the connections                       *)
(***************************************************************************)
\* Bound: connections accepted by each listener
MaxConns == 2

\* The listeners that accept connections
Listeners == {"redirector", "blaze", "http"}

\* The stages of the work for a connection: the TLS handshake and then the
\* HTTP requests (redirector, proxy); the upgrade handshake and then the
\* relay of bytes (tunnel)
FirstStage(l) == IF l = "blaze" THEN "upgrade" ELSE "tls"

NextStage(st) ==
    CASE st = "tls" -> "serve"
      [] st = "upgrade" -> "relay"
      [] OTHER -> "done"

InitConn ==
    /\ lPos = [l \in Listeners |-> "accept"]
    /\ cStage = [l \in Listeners |-> [i \in 1..MaxConns |-> "none"]]

\* listener.accept().await yields a stream
LAccept(l) ==
    /\ lPos[l] = "accept"
    /\ \E i \in 1..MaxConns : cStage[l][i] = "none"
    /\ lPos' = [lPos EXCEPT ![l] = "spawn"]
    /\ UNCHANGED cStage
    /\ UNCHANGED <<qosVars, addrVars, ctxVars, httpVars, tunVars, supVars,
                   uiVars, freshVars, hostVars, guardVars>>

\* A loop that awaits the work for the connection before it accepts again
LSpawnAwait(l) ==
    /\ lPos[l] = "spawn"
    /\ LET i == CHOOSE i \in 1..MaxConns :
                   /\ cStage[l][i] = "none"
                   /\ \A j \in 1..(i - 1) : cStage[l][j] # "none"
       IN  cStage' = [cStage EXCEPT ![l][i] = FirstStage(l)]
    /\ lPos' = [lPos EXCEPT ![l] = "handling"]
    /\ UNCHANGED <<qosVars, addrVars, ctxVars, httpVars, tunVars, supVars,
                   uiVars, freshVars, hostVars, guardVars>>

\* tokio::spawn of the work for the stream; the loop goes back to accept
LSpawn(l) ==
    /\ lPos[l] = "spawn"
    /\ LET i == CHOOSE i \in 1..MaxConns :
                   /\ cStage[l][i] = "none"
                   /\ \A j \in 1..(i - 1) : cStage[l][j] # "none"
       IN  cStage' = [cStage EXCEPT ![l][i] = FirstStage(l)]
    /\ lPos' = [lPos EXCEPT ![l] = "accept"]
    /\ UNCHANGED <<qosVars, addrVars, ctxVars, httpVars, tunVars, supVars,
                   uiVars, freshVars, hostVars, guardVars>>

\* The task of a connection completes the stage it is at; a connection that
\* stalls takes no such step
ConnStep(l, i) ==
    /\ cStage[l][i] \notin {"none", "done"}
    /\ cStage' = [cStage EXCEPT ![l][i] = NextStage(cStage[l][i])]
    /\ UNCHANGED lPos
    /\ UNCHANGED <<qosVars, addrVars, ctxVars, httpVars, tunVars, supVars,
                   uiVars, freshVars, hostVars, guardVars>>

\* The task of a connection ends at the stage it is at: the handshake or the
\* upgrade fails, or the peer closes
ConnFail(l, i) ==
    /\ cStage[l][i] \notin {"none", "done"}
    /\ cStage' = [cStage EXCEPT ![l][i] = "done"]
    /\ UNCHANGED lPos
    /\ UNCHANGED <<qosVars, addrVars, ctxVars, httpVars, tunVars, supVars,
                   uiVars, freshVars, hostVars, guardVars>>

(***************************************************************************)
(* host.rs: the hosts file                                                 *)
(***************************************************************************)
HOST_KEY == "winter15.gosredirector.ea.com"

HOST_VALUE == "127.0.0.1"

\* Bounds: lines of the hosts file at the start, calls made
MaxLines == 2

MaxOps == 2

\* A line of text: its whitespace-separated fields before any '#', and the
\* comment that follows the '#' ("" when there is none)
Line(fields, comment) == [fields |-> fields, comment |-> comment]

BlankLine == Line(<<>>, "")

\* The words that have HOST_KEY inside them, and the comments that do
KeyWords == {HOST_KEY, "old.winter15.gosredirector.ea.com"}

KeyComments == {"# 127.0.0.1 winter15.gosredirector.ea.com"}

\* The lines a hosts file may hold: entries of the vendor host and of other
\* hosts, the vendor host as an alias, comments, a blank line
HostLines ==
    {BlankLine,
     Line(<<>>, "# note"),
     Line(<<>>, "# 127.0.0.1 winter15.gosredirector.ea.com"),
     Line(<<"10.0.0.1", HOST_KEY>>, ""),
     Line(<<"10.0.0.1", HOST_KEY>>, "# note"),
     Line(<<"10.0.0.2", "other.host">>, ""),
     Line(<<"10.0.0.2", "old.winter15.gosredirector.ea.com">>, ""),
     Line(<<"10.0.0.3", "other.host", HOST_KEY>>, ""),
     Line(<<HOST_KEY, "10.0.0.4">>, "")}

\* A text is a sequence of lines, each with its terminator: "LF", "CRLF", or
\* "" for a last line that is not terminated
Row(line, term) == [line |-> line, term |-> term]

\* The texts with the lines ls: every line ended by `term`, the last one
\* ended or, when it is not blank, left open
TextsOf(ls, term) ==
    LET n == Len(ls)
        closed == [i \in 1..n |-> Row(ls[i], term)]
    IN  IF n = 0 \/ ls[n] = BlankLine
        THEN {closed}
        ELSE {closed, [closed EXCEPT ![n] = Row(ls[n], "")]}

HostFiles ==
    UNION {TextsOf(ls, term) :
             ls \in UNION {[1..n -> HostLines] : n \in 0..MaxLines},
             term \in {"LF", "CRLF"}}

\* str::lines: the lines without their terminators
Lines(text) == [i \in 1..Len(text) |-> text[i].line]

\* [&str]::join("\n"): a line feed between two lines and none after the
\* last; an empty last line leaves the text ending in the line feed of the
\* line before it
Join(ls) ==
    LET n == Len(ls)
    IN  IF n = 0 THEN <<>>
        ELSE IF ls[n] = BlankLine
        THEN [i \in 1..(n - 1) |-> Row(ls[i], "LF")]
        ELSE [i \in 1..n |-> Row(ls[i], IF i < n THEN "LF" ELSE "")]

\* str::contains(HOST_KEY) on a whole line
ContainsKey(line) ==
    \/ \E i \in 1..Len(line.fields) : line.fields[i] \in KeyWords
    \/ line.comment \in KeyComments

\* A filter that looks at the first field
FilterNotHostLineFirst(line) ==
    IF line = BlankLine \/ line.fields = <<>> \/ ~ContainsKey(line)
    THEN TRUE
    ELSE line.fields[1] # HOST_KEY

\* filter_not_host_line: TRUE for the lines to keep
FilterNotHostLine(line) ==
    IF line = BlankLine \/ line.fields = <<>> \/ ~ContainsKey(line)
    THEN TRUE
    ELSE LET before == line.fields
         IN  IF before = <<>> \/ ~(\E i \in 1..Len(before) : before[i] \in KeyWords)
             THEN TRUE
             ELSE IF Len(before) < 2 THEN TRUE
             ELSE before[2] # HOST_KEY

DroppedLine(line) == ~FilterNotHostLine(line)

\* format!("{} {}", HOST_VALUE, HOST_KEY)
HostEntry == Line(<<HOST_VALUE, HOST_KEY>>, "")

InitHosts(text) ==
    /\ hostsFile = text
    /\ hostsLog = <<>>

\* set_host_entry: read, filter, push the entry, join, write
SetHostEntry ==
    /\ Len(hostsLog) < MaxOps
    /\ LET lines == SelectSeq(Lines(hostsFile), FilterNotHostLine)
           joined == Join(Append(lines, HostEntry))
       IN  /\ hostsFile' = joined
           /\ hostsLog' = Append(hostsLog,
                  [op |-> "set", before |-> hostsFile, after |-> joined,
                   dropped |-> SelectSeq(Lines(hostsFile), DroppedLine)])
    /\ UNCHANGED <<qosVars, addrVars, ctxVars, httpVars, tunVars, supVars,
                   uiVars, freshVars, connVars, guardVars>>

\* remove_host_entry: read, filter, join, write
RemoveHostEntry ==
    /\ Len(hostsLog) < MaxOps
    /\ LET lines == SelectSeq(Lines(hostsFile), FilterNotHostLine)
           joined == Join(lines)
       IN  /\ hostsFile' = joined
           /\ hostsLog' = Append(hostsLog,
                  [op |-> "remove", before |-> hostsFile, after |-> joined,
                   dropped |-> SelectSeq(Lines(hostsFile), DroppedLine)])
    /\ UNCHANGED <<qosVars, addrVars, ctxVars, httpVars, tunVars, supVars,
                   uiVars, freshVars, connVars, guardVars>>

\* read_hosts_file or write_hosts_file is Err (no file, no permission): the
\* call returns the error and the file is as it was
HostsIoError ==
    /\ Len(hostsLog) < MaxOps
    /\ hostsLog' = Append(hostsLog,
           [op |-> "error", before |-> hostsFile, after |-> hostsFile,
            dropped |-> <<>>])
    /\ UNCHANGED hostsFile
    /\ UNCHANGED <<qosVars, addrVars, ctxVars, httpVars, tunVars, supVars,
                   uiVars, freshVars, connVars, guardVars>>

(***************************************************************************)
(* Specifications                                                          *)
(***************************************************************************)
\* The QoS server alone
NextQos ==
    \/ \E p \in Payloads, src \in Sources : QosRecv(p, src)
    \/ \E p \in Payloads, src \in Sources : QosRecvOversize(p, src)
    \/ QosRecvErr
    \/ PublicAddressCached
    \/ \E r1 \in EndpointOutcomes, r2 \in EndpointOutcomes,
          local \in {NoAddr, LocalIp} : PublicAddressLookup(r1, r2, local)
    \/ QosSend(TRUE)
    \/ \E d \in TickSteps : Tick(d)

InitQosSpec ==
    /\ InitQos /\ InitAddr /\ InitCtxWith(NoTarget, None) /\ InitHttpWith({})
    /\ InitTun
    /\ InitSupWith({}) /\ InitUiWith("iced") /\ InitConn /\ InitHosts(<<>>)

SpecQos == InitQosSpec /\ [][NextQos]_vars

\* The QoS loop with its failures: recv_from and send_to may fail at any
\* turn of the loop; one short datagram from either source
NextQosFail ==
    \/ \E p \in {<<>>, <<7>>}, src \in Sources : QosRecv(p, src)
    \/ QosRecvErr
    \/ PublicAddressCached
    \/ \E r1 \in EndpointOutcomes, r2 \in EndpointOutcomes,
          local \in {NoAddr, LocalIp} : PublicAddressLookup(r1, r2, local)
    \/ \E ok \in BOOLEAN : QosSend(ok)

InitQosFailSpec ==
    /\ InitQos /\ InitAddr /\ InitCtxWith(NoTarget, None) /\ InitHttpWith({})
    /\ InitTun
    /\ InitSupWith({}) /\ InitUiWith("iced") /\ InitConn /\ InitHosts(<<>>)

SpecQosFail == InitQosFailSpec /\ [][NextQosFail]_vars

\* public_address() with two callers
AddrStep(c) ==
    \/ AddrAcquire(c)
    \/ \E r \in EndpointOutcomes, local \in {NoAddr, LocalIp} :
          AddrResponse(c, r, local)
    \/ AddrReturn(c)

NextAddr ==
    \/ \E c \in Callers : AddrCall(c)
    \/ \E c \in Callers : AddrStep(c)
    \/ \E c \in Callers : AddrHang(c)
    \/ \E d \in TickSteps : Tick(d)

InitAddrSpec ==
    /\ InitQos /\ InitAddr /\ InitCtxWith(NoTarget, None) /\ InitHttpWith({})
    /\ InitTun /\ InitSupWith({})
    /\ InitUiWith("iced") /\ InitConn /\ InitHosts(<<>>)

SpecAddr == InitAddrSpec /\ [][NextAddr]_vars

\* The same, with the scheduling of the runtime: a task that can take a step
\* of public_address takes it; nothing is assumed of the IP services beyond
\* the answers they give
SpecAddrLive ==
    /\ InitAddrSpec
    /\ [][NextAddr]_vars
    /\ \A c \in Callers : WF_vars(AddrStep(c))

\* The HTTP proxy's handler, with the connection context as it happens to be
NextHttp ==
    \/ HttpAccept
    \/ HttpAcceptErr
    \/ HttpConnClose
    \/ \E req \in AllRequests : HttpRecv(req)
    \/ HttpDiscovery
    \/ HttpReadTarget
    \/ HttpReadToken
    \/ \E res \in UpstreamResponses : HttpSendOk(res)
    \/ HttpSendErr
    \/ HttpRespond
    \/ HttpReturn

InitHttpSpec ==
    /\ \E t \in {NoTarget} \cup {SomeTarget(d) : d \in LookupResults},
          k \in {None, Some("tokenA"), Some(BadToken)} : InitCtxWith(t, k)
    /\ InitHttpWith(AllRequests)
    /\ InitQos /\ InitAddr /\ InitTun /\ InitSupWith({})
    /\ InitUiWith("iced") /\ InitConn /\ InitHosts(<<>>)

SpecHttp == InitHttpSpec /\ [][NextHttp]_vars

\* The redirector
NextRedir == \E req \in AllRequests : RedirectorServe(req)

InitRedirSpec ==
    /\ InitCtxWith(NoTarget, None) /\ InitHttpWith(AllRequests)
    /\ InitQos /\ InitAddr /\ InitTun /\ InitSupWith({})
    /\ InitUiWith("iced") /\ InitConn /\ InitHosts(<<>>)

SpecRedir == InitRedirSpec /\ [][NextRedir]_vars

CtxResponses == {[status |-> 200, headers |-> {}, body |-> "{}"]}

\* The writers of the connection context together with its readers
NextCtx ==
    \/ \E r \in LookupResults : UpdateHostAcquire(r)
    \/ UpdateHostFailed
    \/ UpdateHostStore1
    \/ UpdateHostStore2
    \/ UpdateHostRelease
    \/ \E k \in Tokens : SetToken(k)
    \/ ClearTarget
    \/ ClearToken
    \/ HttpAccept
    \/ \E req \in AllRequests : HttpRecv(req)
    \/ HttpReadTarget
    \/ HttpReadToken
    \/ \E res \in CtxResponses : HttpSendOk(res)
    \/ HttpSendErr
    \/ HttpRespond
    \/ HttpReturn

CtxRequests == {Request("GET", <<"/wal/api">>, "", {})}

InitCtxSpec ==
    /\ InitCtxWith(NoTarget, None) /\ InitHttpWith(CtxRequests)
    /\ InitQos /\ InitAddr /\ InitTun /\ InitSupWith({})
    /\ InitUiWith("iced") /\ InitConn /\ InitHosts(<<>>)

SpecCtx == InitCtxSpec /\ [][NextCtx]_vars

\* The writers of the connection context together with the proxy and the
\* tunnel, each taking requests and connections while the writers run.  The
\* proxy and the tunnel share nothing but the context: the proxy's requests
\* come first, and the tunnel's connections once the proxy is at rest.
NextFresh ==
    \/ \E r \in LookupResults : UpdateHostAcquire(r)
    \/ UpdateHostStore1
    \/ UpdateHostStore2
    \/ UpdateHostRelease
    \/ \E k \in Tokens : SetToken(k)
    \/ ClearTarget
    \/ ClearToken
    \/ tPc = "idle" /\ HttpAccept
    \/ tPc = "idle" /\ \E req \in CtxRequests : HttpRecv(req)
    \/ HttpReadTarget
    \/ HttpReadToken
    \/ \E res \in CtxResponses : HttpSendOk(res)
    \/ HttpRespond
    \/ HttpReturn
    \/ hPc = "idle" /\ TunAccept
    \/ TunReadTarget
    \/ TunReadToken
    \/ TunUpgradeFailed("refused")

InitFreshSpec ==
    /\ InitCtxWith(NoTarget, None) /\ InitHttpWith(CtxRequests)
    /\ InitQos /\ InitAddr /\ InitTun /\ InitSupWith({})
    /\ InitUiWith("iced") /\ InitConn /\ InitHosts(<<>>)

SpecFresh == InitFreshSpec /\ [][NextFresh]_vars

\* One tunnel connection
NextRelay ==
    \/ \E k \in {"tokenA"} : SetToken(k)
    \/ TunAccept
    \/ TunReadTarget
    \/ TunReadToken
    \/ TunUpgraded
    \/ \E why \in UpgradeFailures : TunUpgradeFailed(why)
    \/ TunAcceptErr
    \/ \E b \in Bytes : ClientWrite(b)
    \/ \E b \in Bytes : ServerWrite(b)
    \/ \E n \in 1..MaxBytes : RelayReadClient(n)
    \/ \E n \in 1..MaxBytes : RelayWriteServer(n)
    \/ \E n \in 1..MaxBytes : RelayReadServer(n)
    \/ \E n \in 1..MaxBytes : RelayWriteClient(n)

InitRelaySpec ==
    /\ \E t \in {NoTarget, SomeTarget(LookupData1)},
          k \in {None, Some("tokenA"), Some(BadToken)} : InitCtxWith(t, k)
    /\ InitHttpWith({})
    /\ InitQos /\ InitAddr /\ InitTun /\ InitSupWith({})
    /\ InitUiWith("iced") /\ InitConn /\ InitHosts(<<>>)

SpecRelay == InitRelaySpec /\ [][NextRelay]_vars

\* The readers of the context next to a writer of the target
NextGuard ==
    \/ \E r \in LookupResults : UpdateHostAcquire(r)
    \/ UpdateHostStore1
    \/ UpdateHostStore2
    \/ UpdateHostRelease
    \/ HttpAccept
    \/ \E req \in CtxRequests : HttpRecv(req)
    \/ HttpReadTarget
    \/ HttpReadToken
    \/ \E res \in CtxResponses : HttpSendOk(res)
    \/ HttpRespond
    \/ HttpReturn
    \/ TunAccept
    \/ TunReadTarget
    \/ TunReadToken
    \/ TunUpgraded
    \/ TunUpgradeFailed("refused")
    \/ LoginReadTarget
    \/ LoginBlockEnd
    \/ LoginReturn

InitGuardSpec ==
    /\ \E t \in {NoTarget, SomeTarget(LookupData1)} :
          InitCtxWith(t, Some("tokenA"))
    /\ InitHttpWith(CtxRequests)
    /\ InitQos /\ InitAddr /\ InitTun /\ InitSupWith({})
    /\ InitUiWith("iced") /\ InitConn /\ InitHosts(<<>>)

SpecGuard == InitGuardSpec /\ [][NextGuard]_vars

\* The end of a relay: one connection, the peers write, close or reset
RelaySteps ==
    \/ TunReadTarget
    \/ TunReadToken
    \/ TunUpgraded
    \/ \E n \in 1..MaxBytes : RelayReadClient(n)
    \/ \E n \in 1..MaxBytes : RelayWriteServer(n)
    \/ \E n \in 1..MaxBytes : RelayReadServer(n)
    \/ \E n \in 1..MaxBytes : RelayWriteClient(n)
    \/ RelayEofClient
    \/ RelayEofServer
    \/ RelayEnd

NextRelayEnd ==
    \/ TunAccept
    \/ ClientWrite(1)
    \/ ServerWrite(2)
    \/ \E who \in {"game", "server"}, how \in {"closed", "reset"} :
          PeerEnd(who, how)
    \/ RelaySteps

InitRelayEndSpec ==
    /\ InitCtxWith(SomeTarget(LookupData1), Some("tokenA"))
    /\ InitHttpWith({})
    /\ InitQos /\ InitAddr /\ InitTun /\ InitSupWith({})
    /\ InitUiWith("iced") /\ InitConn /\ InitHosts(<<>>)

SpecRelayEnd == InitRelayEndSpec /\ [][NextRelayEnd]_vars

\* The same, with the scheduling of the runtime: the task of handle_client
\* takes the steps it can take; nothing is assumed of what the peers do
SpecRelayEndLive == SpecRelayEnd /\ WF_vars(RelaySteps)

\* Starting and stopping the servers
NextSup ==
    \/ StartAllServers
    \/ StopAll
    \/ \E t \in tasks : ServerBind(t)
    \/ \E t \in tasks : ConnAccept(t)
    \/ \E c \in conns : ConnEnd(c)

InitSupSpec ==
    /\ InitCtxWith(SomeTarget(LookupData1), Some("tokenA"))
    /\ \E ext \in SUBSET Services : InitSupWith(ext)
    /\ InitHttpWith({})
    /\ InitQos /\ InitAddr /\ InitTun /\ InitUiWith("iced") /\ InitConn
    /\ InitHosts(<<>>)

SpecSup == InitSupSpec /\ [][NextSup]_vars

\* A front-end driving the servers
NextUi ==
    \/ IcedUpdateTarget
    \/ \E v \in {"Success", "Error"} : IcedLookupState(v)
    \/ \E st \in {"Login", "Create"} : IcedSwapAuth(st)
    \/ IcedAttemptAuth
    \/ \E ok \in BOOLEAN : IcedAuthDone(ok)
    \/ IcedDisconnect
    \/ NativeConnect
    \/ \E ok \in BOOLEAN : NativeLookupDone(ok)
    \/ NativeAttemptAuth
    \/ \E ok \in BOOLEAN : NativeAuthDone(ok)
    \/ NativeHandleNextState
    \/ NativeSwapAuth
    \/ NativeDisconnect
    \/ \E t \in tasks : ServerBind(t)

InitUiSpec ==
    /\ \E f \in {"iced", "native"} : InitUiWith(f)
    /\ InitCtxWith(SomeTarget(LookupData1), Some("tokenA"))
    /\ InitSupWith({})
    /\ InitHttpWith({})
    /\ InitQos /\ InitAddr /\ InitTun /\ InitConn /\ InitHosts(<<>>)

SpecUi == InitUiSpec /\ [][NextUi]_vars

\* The three accept loops and the tasks of their connections
NextConn ==
    \/ \E l \in Listeners : LAccept(l)
    \/ \E l \in Listeners : LSpawn(l)
    \/ \E l \in Listeners, i \in 1..MaxConns : ConnStep(l, i)
    \/ \E l \in Listeners, i \in 1..MaxConns : ConnFail(l, i)

InitConnSpec ==
    /\ InitCtxWith(SomeTarget(LookupData1), Some("tokenA"))
    /\ InitHttpWith({}) /\ InitQos /\ InitAddr /\ InitTun /\ InitSupWith({})
    /\ InitUiWith("iced") /\ InitConn /\ InitHosts(<<>>)

SpecConn == InitConnSpec /\ [][NextConn]_vars

\* The hosts file and the calls that rewrite it
NextHosts ==
    \/ SetHostEntry
    \/ RemoveHostEntry
    \/ HostsIoError

InitHostsSpec ==
    /\ InitCtxWith(NoTarget, None)
    /\ InitHttpWith({}) /\ InitQos /\ InitAddr /\ InitTun /\ InitSupWith({})
    /\ InitUiWith("iced") /\ InitConn
    /\ \E text \in HostFiles : InitHosts(text)

SpecHosts == InitHostsSpec /\ [][NextHosts]_vars

(***************************************************************************)
(* The claims                                                              *)
(***************************************************************************)
\* C1: the datagram sent back to the source of a datagram with payload P is
\* exactly P, the 4 bytes of the address, the 2 bytes of the source port
\* (big-endian) and 4 zero bytes: len(P) + 10 bytes and nothing else.
C1_ResponseIsExact ==
    (qosPc = "recv" /\ lastSent.some) =>
        /\ lastSent.v.to = lastIn.v.src
        /\ lastSent.v.data = lastIn.v.payload \o lastSent.v.addr
                             \o ToBeBytes16(lastIn.v.src.port) \o <<0, 0, 0, 0>>
        /\ Len(lastSent.v.data) = Len(lastIn.v.payload) + 10

\* C2: in an established relay the bytes delivered to each side are a prefix
\* of the bytes the other side wrote, in the same order, and while the relay
\* runs every byte written is delivered, buffered or still to be read.
C2_RelayOrder ==
    /\ IsPrefix(sIn, cOut)
    /\ IsPrefix(cIn, sOut)
    /\ tPc = "relay" => /\ sIn \o c2sBuf \o cWire = cOut
                        /\ cIn \o s2cBuf \o sWire = sOut

C2_Witness ==
    /\ tPc = "relay"
    /\ sIn = <<1, 2>>
    /\ cIn = <<2, 1>>

C4_NoTornRead == hTarget.some => hTarget.v \in written

C4_Witness ==
    /\ hPc = "token"
    /\ hTarget = Some(LookupData1)
    /\ wPc = "store2"
    /\ wVal = LookupData2

\* C5: the target and the token a handler reads form a pair that was current
\* together at some moment of the handler's reads.
C5_PairCurrentTogether ==
    (hPc \in {"send", "respond", "done"} /\ hTarget.some) =>
        <<SomeTarget(hTarget.v), hToken>> \in hPairs

\* C6: a request for another path than the discovery endpoint, with no
\* target set, is answered 503 with an empty body and nothing is sent out.
C6_NoTargetUnavailable ==
    (hPc \notin {"idle", "route"} /\ hReq.v.path # DISCOVERY_PATH
     /\ ~TARGET.some) =>
        /\ hPc = "done"
        /\ hResp.some
        /\ hResp.v.status = 503
        /\ hResp.v.body = ""
        /\ hSends = 0
        /\ proxyReq = None

C6_Witness ==
    /\ hPc = "done"
    /\ ~TARGET.some
    /\ hReq.v.method = "POST"
    /\ hReq.v.path # DISCOVERY_PATH
    /\ hResp.some

\* C7: for POST, PUT, PATCH and DELETE the outbound request carries the
\* client's content-length, content-type and content-encoding (each one
\* sent) and the body; for every other method it carries no body.
C7_ContentHeadersForwarded ==
    proxyReq.some =>
        IF hReq.v.method \in {"POST", "PUT", "PATCH", "DELETE"}
        THEN /\ \A n \in {"content-length", "content-type", "content-encoding"} :
                    HeaderGet(proxyReq.v.headers, n) = HeaderGet(hReq.v.headers, n)
             /\ proxyReq.v.body = Some(hReq.v.body)
        ELSE proxyReq.v.body = None

\* C8: the response for a proxied request has the upstream's status and
\* body and, of the upstream's headers, content-type only.
C8_ResponseFiltered ==
    (hPc = "done" /\ proxyRes.some) =>
        /\ hResp.some
        /\ hResp.v.status = proxyRes.v.status
        /\ hResp.v.body = proxyRes.v.body
        /\ hResp.v.headers = {h \in proxyRes.v.headers : h[1] = "content-type"}

C8_Witness ==
    /\ hPc = "done"
    /\ hResp.some
    /\ proxyRes.some
    /\ proxyRes.v.status = 404
    /\ proxyRes.v.headers = {<<"content-type", "application/json">>,
                             <<"set-cookie", "sid=1">>}
    /\ hResp.v.headers = {<<"content-type", "application/json">>}

\* C9: every request to the redirector, whatever its method or path, gets
\* the document with hostname localhost, ip 2130706433 and the tunnel port,
\* and the four headers.
C9_RedirectorDocument ==
    rResp.some =>
        /\ Between(rResp.v.body, "<hostname>", "</hostname>") = <<"localhost">>
        /\ Between(rResp.v.body, "<ip>", "</ip>")
               = <<"2", "1", "3", "0", "7", "0", "6", "4", "3", "3">>
        /\ Between(rResp.v.body, "<port>", "</port>") = FormatDisplay(MAIN_PORT)
        /\ rResp.v.headers = {<<"X-BLAZE-COMPONENT", "redirector">>,
                              <<"X-BLAZE-COMMAND", "getServerInstance">>,
                              <<"X-BLAZE-SEQNO", "0">>,
                              <<"content-type", "application/xml">>}

C9_Witness ==
    /\ rResp.some
    /\ rReq.v.method = "DELETE"
    /\ rReq.v.path # DISCOVERY_PATH
    /\ Between(rResp.v.body, "<port>", "</port>") = <<"4", "2", "2", "3", "1">>

\* C10: a request to the proxy for the discovery endpoint gets the status,
\* headers and body the redirector returns, whatever the target and token,
\* and nothing is sent out.
C10_DiscoveryAsRedirector ==
    (hPc \notin {"idle", "route"} /\ hReq.v.path = DISCOVERY_PATH) =>
        /\ hPc = "done"
        /\ hResp = Some(RedirectorHandleHttp(hReq.v))
        /\ hSends = 0
        /\ proxyReq = None

C10_Witness ==
    /\ hPc = "done"
    /\ hReq.v.path = DISCOVERY_PATH
    /\ hReq.v.query = "v=1"
    /\ TARGET.some
    /\ TOKEN.some
    /\ hResp.some

\* C19: a failure while setting up the tunnel for a connection (no token, a
\* token that is no header value, connection refused, a response that is no upgrade) closes that connection
\* after at most one upstream request, and never stops the accept loop: the
\* listener stops only when accept itself fails.
C19_SetupFailureIsLocal ==
    /\ tSends <= 1
    /\ tFail \in {"notoken", "token"} \cup UpgradeFailures =>
          tPc = "closed"
          /\ tSends = (IF tFail \in {"notoken", "token"} THEN 0 ELSE 1)
    /\ ~tListening => "accept" \in tFails

\* A connection is being relayed after earlier connections failed in each way
C19_Witness ==
    /\ tPc = "relay"
    /\ tListening
    /\ {"notoken"} \cup UpgradeFailures \subseteq tFails

\* C20: once handle_client has found no target, the connection is closed, the
\* token was not read and no upstream request was sent.
C20_NoTargetCloses ==
    (tPc \notin {"idle", "target"} /\ ~tTarget.some) =>
        tPc = "closed" /\ tSends = 0 /\ ~tToken.some /\ tFail = "notarget"

\* A connection accepted while no target is set has been closed
C20_Witness ==
    /\ tPc = "closed"
    /\ tFail = "notarget"
    /\ ~TARGET.some
    /\ tSends = 0

\* C13: when both external services fail and there is no local IPv4 address,
\* the response carries the IPv4 source address of the datagram and the cache
\* is as it was before the call.
C13_FallbackLeavesCache ==
    (qosPc \in {"send", "recv"} /\ lastLookup.some /\ ~lastLookup.v.hit
        /\ lastLookup.v.value = NoAddr) =>
        /\ cache = lastLookup.v.before
        /\ address = srcAddr.ip
        /\ (qosPc = "recv" /\ lastSent.some) =>
              /\ lastSent.v.addr = lastIn.v.src.ip
              /\ SubSeq(lastSent.v.data, Len(lastIn.v.payload) + 1,
                        Len(lastIn.v.payload) + 4) = lastIn.v.src.ip

\* A datagram was answered with its source address while an expired entry
\* stayed in the cache
C13_Witness ==
    /\ qosPc = "recv"
    /\ lastSent.some
    /\ lastLookup.some /\ ~lastLookup.v.hit /\ lastLookup.v.value = NoAddr
    /\ cache.set /\ cache.expires <= now
    /\ lastSent.v.addr = <<10, 0, 0, 2>>

\* C11: a call of public_address is answered from the cache, with no request
\* to the IP services, exactly when at the time it examines the cache an
\* entry exists and now < expires; the value returned is the stored one, and
\* a call that is not a hit queries the services.
C11_HitIffFresh ==
    \A c \in Callers :
        aPc[c] = "done" =>
            /\ aHit[c] <=> aSeen[c].fresh
            /\ aHit[c] => aExt[c] = 0 /\ aRet[c] = Some(aSeen[c].value)
            /\ ~aHit[c] => aExt[c] >= 1

\* A call one second before the expiry is a hit, next to a call that found
\* the entry expired
C11_Witness ==
    /\ cache.set
    /\ \E c \in Callers :
          aPc[c] = "done" /\ aHit[c] /\ now = cache.expires - 1
                          /\ aRet[c] = Some(cache.value)

\* C12: a caller that gets the exclusive lock when another caller has already
\* refreshed the entry returns the refreshed value without a request to any
\* IP service.
C12_SingleRefresh ==
    \A c \in Callers :
        (aPc[c] \in {"req", "hung", "done"} /\ aAtLock[c]) => aExt[c] = 0

\* C14: every call of public_address that has to refresh the entry
\* eventually returns.
C14_LookupReturns ==
    \A c \in Callers : (aPc[c] \in {"wait", "req", "hung"}) ~> (aPc[c] = "done")

\* C15: when stop_server_tasks has returned, every recorded task has
\* terminated and its socket is released, and the connection context holds
\* neither a target nor a token.
C15_StopJoinsAndClears ==
    lastOp = "stop" =>
        /\ \A t \in tasks : t.st \notin {"spawned", "serving", "cancelled"}
        /\ bound = {}
        /\ ~TARGET.some
        /\ ~TOKEN.some

\* The servers were serving on all four ports, with a target and a token
\* set, and have been stopped
C15_Witness ==
    /\ lastOp = "stop"
    /\ gen >= 1
    /\ tasks = {}
    /\ bound = {}
    /\ ~TARGET.some /\ ~TOKEN.some
    /\ ~procExit

\* C17: after stop_server_tasks no task spawned for a connection accepted by
\* a stopped generation is still running; after start_all_servers the only
\* connection tasks are those of the new generation.
C17_StopEndsConnections ==
    /\ lastOp = "stop" => conns = {}
    /\ \A c \in conns : c.gen = gen

\* C18: a failed bind is reported and ends that server only: the other
\* servers of its generation are not ended by it.
C18_BindFailureIsLocal ==
    \A e \in errors :
        /\ ~procExit
        /\ \A t \in tasks : (t.gen = e[2] /\ t.svc # e[1]) => t.st # "exited"

\* C16: once a front-end has handled a Disconnect, no server task started
\* for the session is still running.
C16_DisconnectStops ==
    lastEvent = "Disconnect" => Live(tasks) = {} /\ bound = {}

\* C21: a transport failure of the outbound request ends the connection it
\* was sent for and nothing else: the request was sent once, the game gets no
\* response on that connection, and the accept loop of the proxy stops only
\* when accept itself fails, so that later connections are served.
C21_TransportFailureIsLocal ==
    /\ hSends <= 1
    /\ hFail = "transport" => hConn = "closed" /\ hSends <= 1 /\ ~hResp.some
    /\ ~hListening => "accept" \in hFails

\* A request of a later connection has been answered after the connection
\* before it was ended by a transport failure
C21_Witness ==
    /\ "transport" \in hFails
    /\ hListening
    /\ hConn = "open"
    /\ hFail = "none"
    /\ hResp.some
    /\ hSends = 1

\* C22: no failure of recv_from or send_to ends the QoS loop: the loop is
\* always at one of its three steps, and whenever it is back at recv_from the
\* last datagram it received has been handed to send_to for its source,
\* whatever failures came before it.
C22_QosLoopSurvives ==
    /\ qosPc \in {"recv", "addr", "send"}
    /\ (qosPc = "recv" /\ lastIn.some) =>
          /\ lastSent.some
          /\ lastSent.v.to = lastIn.v.src
          /\ Take(lastSent.v.data, Len(lastIn.v.payload)) = lastIn.v.payload

\* After a failed receive and a failed send, a datagram has been received
\* and answered with a successful send
C22_Witness ==
    /\ qosPc = "recv"
    /\ lastSent.some
    /\ lastSent.v.ok
    /\ lastSent.v.after = {"recv", "send"}
    /\ lastIn.some
    /\ lastSent.v.to = lastIn.v.src
    /\ Len(lastIn.v.payload) > 0

\* C23: once the handler has read a target and gone past its read of the
\* token, the outbound request exists, and it carries the token header
\* exactly when a token was present, with the token as its value.
C23_TokenHeaderIffPresent ==
    (hTarget.some /\ hPc \in {"send", "respond", "done"}) =>
        /\ proxyReq.some
        /\ HeaderGet(proxyReq.v.headers, TOKEN_HEADER) = hToken

\* C24: the outbound request has the method and the path and query of the
\* game's request, and it is sent to the scheme, the host and the port of the
\* target the handler read.
C24_OutboundToTarget ==
    (proxyReq.some /\ hTarget.some /\ hReq.some) =>
        /\ proxyReq.v.method = hReq.v.method
        /\ Drop(proxyReq.v.url, 3) = PathAndQuery(hReq.v)
        /\ UrlDestination(proxyReq.v.url) =
              [scheme |-> hTarget.v.scheme, host |-> hTarget.v.host,
               port |-> hTarget.v.port]

\* C25: a request of the proxy, or a connection of the tunnel, that was taken
\* while no write of the connection context was under way, and since which
\* none has begun, has used the target and the token that are current: the
\* values of the last completed write, never those of an earlier one.
C25_FreshContext ==
    /\ (~hDirty /\ hTarget.some) =>
          TARGET.some /\ hTarget.v = CloneTarget(TARGET)
    /\ (~hDirty /\ hTarget.some /\ hPc \in {"send", "respond", "done"}) =>
          hToken = TOKEN /\ proxyReq.some
          /\ HeaderGet(proxyReq.v.headers, TOKEN_HEADER) = TOKEN
    /\ (~hDirty /\ hResp = Some(UnavailableResponse)) => ~TARGET.some
    /\ (~tDirty /\ tTarget.some) =>
          TARGET.some /\ tTarget.v = CloneTarget(TARGET)
    /\ (~tDirty /\ tPc = "request") => tToken = TOKEN
    /\ (~tDirty /\ tFail = "notarget") => ~TARGET.some
    /\ (~tDirty /\ tFail = "notoken") => ~TOKEN.some

\* After the proxy was used and the context was then written a second time,
\* a connection of the tunnel taken after that write has used the second
\* target and token
C25_Witness ==
    /\ written = LookupResults
    /\ TARGET = SomeTarget(LookupData2)
    /\ TOKEN = Some("tokenB")
    /\ hConn = "open"
    /\ "notoken" \in tFails
    /\ ~tDirty /\ tPc = "request" /\ tTarget = Some(LookupData2)
    /\ tToken = Some("tokenB")

\* C26: no accept loop ever waits for the work of a connection: each loop is
\* at accept or about to spawn, whatever stages the connections are at, so a
\* connection that stays at its handshake, its request, its upgrade or its
\* relay keeps no listener from accepting the next one.
C26_ListenersNeverWait ==
    \A l \in Listeners :
        /\ lPos[l] \in {"accept", "spawn"}
        /\ lPos[l] = "accept" =>
              \A i \in 1..MaxConns :
                  cStage[l][i] = "none" => \A j \in i..MaxConns : cStage[l][j] = "none"

\* While the first connection of the proxy stays at its TLS handshake and
\* the first of the tunnel at its relay, the second connection of each, and
\* one of the redirector, have been accepted and served to their end
C26_Witness ==
    /\ cStage["http"][1] = "tls"
    /\ cStage["http"][2] = "done"
    /\ cStage["blaze"][1] = "relay"
    /\ cStage["blaze"][2] = "done"
    /\ cStage["redirector"][1] = "serve"
    /\ cStage["redirector"][2] = "done"
    /\ \A l \in Listeners : lPos[l] = "accept"

\* An active entry of the vendor host: HOST_KEY is one of the names that
\* follow the address, before any comment
VendorEntry(line) ==
    \E i \in 2..Len(line.fields) : line.fields[i] = HOST_KEY

NotVendorEntry(line) == ~VendorEntry(line)

FirstFieldIsKey(line) == Len(line.fields) >= 1 /\ line.fields[1] = HOST_KEY

SecondFieldIsKey(line) == Len(line.fields) >= 2 /\ line.fields[2] = HOST_KEY

\* C27: after set_host_entry has succeeded the file has exactly one active
\* line for the vendor host and that line maps it to 127.0.0.1; and a second
\* set_host_entry right after the first leaves the contents as they were.
C27_InstallIdempotent ==
    \A i \in 1..Len(hostsLog) :
        hostsLog[i].op = "set" =>
            LET ls == Lines(hostsLog[i].after)
            IN  /\ Cardinality({j \in 1..Len(ls) : VendorEntry(ls[j])}) = 1
                /\ \A j \in 1..Len(ls) :
                      VendorEntry(ls[j]) => ls[j].fields[1] = HOST_VALUE
                /\ (i > 1 /\ hostsLog[i - 1].op = "set") =>
                      hostsLog[i].after = hostsLog[i].before

C29_OtherLinesKept ==
    \A i \in 1..Len(hostsLog) :
        hostsLog[i].op \in {"set", "remove"} =>
            SelectSeq(Lines(hostsLog[i].after), NotVendorEntry) =
                SelectSeq(Lines(hostsLog[i].before), NotVendorEntry)

\* C30: for a file with no entry of the vendor host, set_host_entry followed
\* by remove_host_entry gives back the contents the file had.
C30_RemoveRestores ==
    \A i \in 2..Len(hostsLog) :
        (/\ hostsLog[i].op = "remove"
         /\ hostsLog[i - 1].op = "set"
         /\ \A j \in 1..Len(hostsLog[i - 1].before) :
               NotVendorEntry(hostsLog[i - 1].before[j].line)
               /\ ~SecondFieldIsKey(hostsLog[i - 1].before[j].line)) =>
            hostsLog[i].after = hostsLog[i - 1].before

\* The headers of the upgrade request are those of the target and the token
\* read for the connection
UpgradeHeadersOf(req, target, token) ==
    /\ HeaderGet(req.headers, "connection") = Some("Upgrade")
    /\ HeaderGet(req.headers, "upgrade") = Some("blaze")
    /\ HeaderGet(req.headers, HEADER_SCHEME) = Some(target.scheme)
    /\ HeaderGet(req.headers, HEADER_HOST) = Some(target.host)
    /\ HeaderGet(req.headers, HEADER_PORT) = Some(FormatDisplay(target.port))
    /\ HeaderGet(req.headers, HEADER_AUTH) = Some(token)

\* C31: the upgrade request handle_client sends goes to /ark/client/upgrade
\* at the scheme, host and port of the target read for the connection, and
\* carries Connection: Upgrade, Upgrade: blaze, the scheme, host and port
\* headers of that target and the auth header with the token read for the
\* connection.
C31_UpgradeRequest ==
    tReq.some =>
        /\ tTarget.some /\ tToken.some
        /\ tReq.v.method = "GET"
        /\ Drop(tReq.v.url, 3) = <<"/ark/client/upgrade">>
        /\ UrlDestination(tReq.v.url) =
              [scheme |-> tTarget.v.scheme, host |-> tTarget.v.host,
               port |-> tTarget.v.port]
        /\ UpgradeHeadersOf(tReq.v, tTarget.v, tToken.v)

\* C32: once the game or the server has closed or reset its side of an
\* established relay, the relay ends (handle_client returns and drops both
\* streams) whatever the other side does.
C32_RelayEndsOnClose ==
    (tPc = "relay" /\ (cSide # "open" \/ sSide # "open")) ~> (tPc # "relay")

\* C33: a call that misses the cache asks the services in their order, the
\* first one first; it asks no service after one has given a parseable
\* address and returns that address; a service that fails or gives text
\* that is no address is passed over; and local_ip() is consulted only after
\* both services have given nothing.
C33_EndpointsInOrder ==
    \A c \in Callers :
        LET log == aLog[c]
            asked == {i \in 1..Len(log) : log[i][1] = "ext"}
            k == Cardinality(asked)
        IN  /\ asked = 1..k /\ k <= 2
            /\ \A i \in asked : log[i][2] = i
            /\ \A i \in asked : log[i][3] = "ok" => i = Len(log)
            /\ Len(log) > k =>
                  /\ log = <<log[1], log[2], <<"local">>>>
                  /\ k = 2
                  /\ \A i \in asked : log[i][3] # "ok"
            /\ (aPc[c] = "done" /\ ~aHit[c]) =>
                  /\ k >= 1
                  /\ log[k][3] = "ok" <=> aRet[c] = Some(PublicIp)
                  /\ log[k][3] # "ok" => Len(log) = 3

\* A call has returned the address of the second service after the first
\* gave text that is no address, next to a call that fell back on local_ip()
C33_Witness ==
    \E c, d \in Callers :
        /\ aPc[c] = "done"
        /\ aLog[c] = <<<<"ext", 1, "garbage">>, <<"ext", 2, "ok">>>>
        /\ aRet[c] = Some(PublicIp)
        /\ aPc[d] = "done"
        /\ aLog[d] = <<<<"ext", 1, "fail">>, <<"ext", 2, "fail">>, <<"local">>>>

\* C34: while a server of the generation start_all_servers has started is
\* serving, the connection context holds the target and the token that were
\* handed to that call.
C34_ContextOfGeneration ==
    \A t \in tasks :
        (t.gen = gen /\ t.st = "serving" /\ lastOp = "start") =>
            /\ genArgs.some
            /\ TARGET = SomeTarget(genArgs.v.target)
            /\ TOKEN = Some(genArgs.v.token)

\* C35: while the proxy waits for the upstream answer, while the tunnel
\* waits for the upgrade or relays, and while try_login waits for the
\* server, the task holds no read guard of TARGET or TOKEN, so a writer of
\* the context is not kept waiting by it.
C35_NoGuardAcrossIo ==
    /\ hPc \in {"send", "respond"} => guards["http"] = {}
    /\ tPc \in {"request", "relay"} => guards["tunnel"] = {}
    /\ authPc = "send" => guards["login"] = {}
    /\ (/\ hPc \in {"send", "respond"} \/ tPc \in {"request", "relay"}
           \/ authPc = "send"
        /\ authPc # "url"
        /\ targetLock = "free") => TargetWritable

\* The writer is in the middle of a write of TARGET while the proxy, the
\* tunnel and try_login are all waiting for the server
C35_Witness ==
    /\ wPc = "store1"
    /\ hPc = "send"
    /\ tPc = "request"
    /\ authPc = "send"

\* C36: in the native front-end, while the state is Running the servers
\* started on entering it are running: the last call made to the servers
\* module was the start, and each of the four servers has a live task of the
\* current generation.
C36_NativeRunningIsLive ==
    (frontend = "native" /\ appState = "Running" /\ ~procExit) =>
        /\ lastOp = "start"
        /\ \A s \in Services :
              \E t \in Live(tasks) : t.svc = s /\ t.gen = gen

\* C37: in the iced front-end, while the state is Running the lookup result
\* is Success and the last call made to the servers module was the
\* start_all_servers of the SetState that entered the state.
C37_IcedRunningHasLookup ==
    (frontend = "iced" /\ appState = "Running") =>
        /\ lookupResult = "Success"
        /\ lastOp = "start"
        /\ gen >= 1

\* C38: try_update_host changes TARGET only when the lookup succeeded: a
\* call that returns the lookup's error leaves TARGET as it was, and when a
\* call returns Ok(result), TARGET holds Some(result), the value returned.
C38_UpdateHostOnlyOnSuccess ==
    /\ [](wPc = "release" => TARGET = SomeTarget(wVal))
    /\ [][(wPc = "idle" /\ wPc' = "idle") => TARGET' = TARGET]_vars

C38_Witness ==
    /\ wPc = "release"
    /\ wVal = LookupData2
    /\ TARGET = SomeTarget(LookupData2)
    /\ SomeTarget(LookupData1) \in {SomeTarget(w) : w \in written}

\* C39: an address found by the local fallback is cached like one reported
\* by an external service: the lookup that found it stores it with the expiry
\* now + ADDR_CACHE_TIME, and a public_address() call made before that expiry
\* returns it from the cache without a request to an external service.
C39_LocalAddressCached ==
    /\ (qosPc = "send" /\ lastLookup.some /\ ~lastLookup.v.hit
            /\ lastLookup.v.value = LocalIp) =>
          cache = CacheSet(LocalIp, lastLookup.v.at + ADDR_CACHE_TIME)
    /\ (qosPc = "send" /\ lastLookup.some /\ lastLookup.v.before.set
            /\ lastLookup.v.before.value = LocalIp
            /\ lastLookup.v.at < lastLookup.v.before.expires) =>
          /\ lastLookup.v.hit
          /\ lastLookup.v.value = LocalIp
          /\ address = LocalIp
          /\ extCalls = 0

C39_Witness ==
    /\ qosPc = "send"
    /\ lastLookup.some /\ lastLookup.v.hit
    /\ lastLookup.v.value = LocalIp
    /\ lastLookup.v.at = ADDR_CACHE_TIME - 1
    /\ extCalls = 0

\* C40: the QoS loop never indexes out of bounds: the count recv_from reports
\* is at most the 64 bytes of the buffer, so every range the loop takes of
\* the buffer and of the 128-byte output ends within it (count + 10 <= 128)
\* and has the length of what is copied into it.
C40_QosIndicesInBounds ==
    /\ Len(buffer) = BufferLen
    /\ Len(output) = OutputLen
    /\ qosPc \in {"addr", "send"} =>
          /\ count <= BufferLen
          /\ count + 10 <= OutputLen
          /\ qosPc = "send" => LoopRangesOk(count)

C40_Witness ==
    /\ qosPc = "recv"
    /\ count = BufferLen
    /\ lastSent.some /\ lastIn.some
    /\ Len(lastIn.v.payload) = BufferLen
    /\ lastSent.v.to = lastIn.v.src
    /\ output[BufferLen + 10] = 0 /\ output[BufferLen] = 255
====
